---- MODULE Spec2Model ----
(***************************************************************************)
(* wormhole-lite (solana): the emitter sequencer (state/emitter.rs,        *)
(* instructions/create_emitter.rs, instructions/send_message.rs) and the   *)
(* VAA signature verification bundle builder                               *)
(* (client/vaa_verification_bundle.rs, client/secp256k1_helpers.rs).       *)
(*                                                                         *)
(* The specifications share the module: SpecEmitter drives the emitter     *)
(* account through initialize_emitter and send_message; SpecBundle drives  *)
(* create_vaa_verification_instructions over a family of input VAAs;       *)
(* SpecPacker, SpecCodec and SpecDerive apply the signature packer, the    *)
(* Emitter record codec and the address derivations to families of inputs. *)
(***************************************************************************)
EXTENDS Integers, Sequences, FiniteSets, TLC

VARIABLES
    emitter,      \* the ledger account at derive_emitter(ProgramId): [lamports, data, owner]
    lamports,     \* ledger balance of every publisher (fee payer)
    messages,     \* addresses of the message accounts the core bridge has created
    published,    \* history: one entry per publish that returned Ok, in order
    last,         \* outcome of the last instruction executed
    counter0,     \* history: the counter the followed emitter starts from
    vaa,          \* bundle build: the input VAA (its signature list and header)
    ledger_set,   \* bundle build: the guardian-set account as the ledger serves it
    guardian_set, \* bundle build: the local guardian_set.keys (keys are taken out of it)
    fetches,      \* bundle build: number of guardian-set fetches issued
    batch_i,      \* bundle build: loop variable i
    tx_bundle,    \* bundle build: the local tx_bundle.txs
    build,        \* bundle build: position and outcome of the call
    returned,     \* bundle build: the bundle handed to the caller, once Ok
    packer,       \* signature packer: the argument list and what the call gave back
    codec,        \* Emitter codec: the record or buffer handed in and what came out
    derived,      \* address derivation: the calls made so far, with their results
    pure          \* serialize_vaa, Payload and Accounts::validate: the arguments, then the result

emitterVars == <<emitter, lamports, messages, published, last, counter0>>
bundleVars == <<vaa, ledger_set, guardian_set, fetches, batch_i, tx_bundle, build, returned>>
pureVars == <<packer, codec, derived, pure>>
vars == <<emitter, lamports, messages, published, last, counter0, vaa, ledger_set,
          guardian_set, fetches, batch_i, tx_bundle, build, returned, packer, codec, derived, pure>>

----------------------------------------------------------------------------
(* Bounds of the model *)

\* successful publishes recorded in one behaviour
MaxPublishes == 3

\* signatures in an input VAA
MaxSigs == 15

\* length of the longest buffer handed to the Emitter decoder
MaxBufLen == 80

\* derive_* calls made in one behaviour
MaxDerives == 3

----------------------------------------------------------------------------
(* Bytes, u64 and public keys *)

Zeros(n) == [i \in 1..n |-> 0]

\* A u64 is held as four 16-bit limbs, least significant first, so that the
\* whole 64-bit range (and its overflow) is exact.
LimbMax == 65535

U64(n) == <<n, 0, 0, 0>>

U64_MAX == <<LimbMax, LimbMax, LimbMax, LimbMax>>

\* u64::from_le_bytes
from_le_bytes(b) == [k \in 1..4 |-> b[2 * k - 1] + 256 * b[2 * k]]

\* u64::to_le_bytes
to_le_bytes(v) == [i \in 1..8 |-> IF i % 2 = 1 THEN v[(i + 1) \div 2] % 256 ELSE v[i \div 2] \div 256]

\* checked_add_1 as wrapping_add(1) would compute it: u64::MAX + 1 is Some(0)
checked_add_1_wrapping(v) ==
    IF v[1] < LimbMax THEN [some |-> TRUE, value |-> <<v[1] + 1, v[2], v[3], v[4]>>]
    ELSE IF v[2] < LimbMax THEN [some |-> TRUE, value |-> <<0, v[2] + 1, v[3], v[4]>>]
    ELSE IF v[3] < LimbMax THEN [some |-> TRUE, value |-> <<0, 0, v[3] + 1, v[4]>>]
    ELSE IF v[4] < LimbMax THEN [some |-> TRUE, value |-> <<0, 0, 0, v[4] + 1>>]
    ELSE [some |-> TRUE, value |-> <<0, 0, 0, 0>>]

\* checked_add_1 with the carry out of the low 16 bits dropped
checked_add_1_no_carry(v) ==
    IF v[1] < LimbMax THEN [some |-> TRUE, value |-> <<v[1] + 1, v[2], v[3], v[4]>>]
    ELSE [some |-> TRUE, value |-> <<0, v[2], v[3], v[4]>>]

\* u64::checked_add(self, 1): [some |-> FALSE] is None
checked_add_1(v) ==
    IF v[1] < LimbMax THEN [some |-> TRUE, value |-> <<v[1] + 1, v[2], v[3], v[4]>>]
    ELSE IF v[2] < LimbMax THEN [some |-> TRUE, value |-> <<0, v[2] + 1, v[3], v[4]>>]
    ELSE IF v[3] < LimbMax THEN [some |-> TRUE, value |-> <<0, 0, v[3] + 1, v[4]>>]
    ELSE IF v[4] < LimbMax THEN [some |-> TRUE, value |-> <<0, 0, 0, v[4] + 1>>]
    ELSE [some |-> FALSE, value |-> v]

\* A public key is its 32 bytes; the keys of the model repeat one byte.
Pubkey(b) == [i \in 1..32 |-> b]

\* Pubkey::default(), which is also system_program::id()
PubkeyDefault == Pubkey(0)

SystemProgramId == Pubkey(0)

\* the program that owns the emitter and calls the library
ProgramId == Pubkey(1)

\* another on-chain program, calling the same library code
OtherProgramId == Pubkey(2)

WORMHOLE_PROGRAM_ID == Pubkey(3)

SysvarClockId == Pubkey(4)

SysvarRentId == Pubkey(5)

\* a key that is none of the above and no derived address
StrayKey == Pubkey(9)

\* find_program_address with a collision nonce that depends on how many
\* addresses were derived before
find_program_address_stateful(tag, seed, program_id) ==
    [address |-> [i \in 1..32 |-> IF i = 1 THEN tag
                                   ELSE IF i = 2 THEN program_id[1]
                                   ELSE IF i - 2 <= Len(seed) THEN seed[i - 2]
                                   ELSE 0],
     bump |-> 255 - Len(derived)]

\* Pubkey::find_program_address(seeds, program_id): a collision-free stand-in
\* for the hash: the address spells out a tag for the fixed seed, the first
\* byte of the program id and the variable seed bytes.
find_program_address(tag, seed, program_id) ==
    [address |-> [i \in 1..32 |-> IF i = 1 THEN tag
                                   ELSE IF i = 2 THEN program_id[1]
                                   ELSE IF i - 2 <= Len(seed) THEN seed[i - 2]
                                   ELSE 0],
     bump |-> 255 - ((tag + program_id[1]) % 3)]

derive_message_pda(program_id, nonce) == find_program_address(101, to_le_bytes(nonce), program_id)

derive_sequence(emitter_pda) == find_program_address(102, emitter_pda, WORMHOLE_PROGRAM_ID)

derive_emitter(executing_program_id) == find_program_address(103, <<>>, executing_program_id)

derive_core_bridge_config == find_program_address(104, <<>>, WORMHOLE_PROGRAM_ID)

derive_core_fee_collector == find_program_address(105, <<>>, WORMHOLE_PROGRAM_ID)

----------------------------------------------------------------------------
(* state/emitter.rs: the Emitter record and its 73-byte layout *)

EmitterLEN == 73

Emitter(owner, nonce, next_publishable_nonce, padding) ==
    [owner |-> owner, nonce |-> nonce, next_publishable_nonce |-> next_publishable_nonce,
     padding |-> padding]

\* IsInitialized for Emitter
is_initialized(e) == e.owner # PubkeyDefault

\* Pack::unpack_from_slice
unpack_from_slice(src) ==
    Emitter(SubSeq(src, 1, 32), src[33], from_le_bytes(SubSeq(src, 34, 41)), SubSeq(src, 42, 73))

\* pack_into_slice writing the counter before the derivation nonce
pack_into_slice_counter_first(e) ==
    e.owner \o to_le_bytes(e.next_publishable_nonce) \o <<e.nonce>> \o e.padding

\* Pack::pack_into_slice, on a 73-byte destination
pack_into_slice(e) ==
    e.owner \o <<e.nonce>> \o to_le_bytes(e.next_publishable_nonce) \o e.padding

\* Pack::pack: the length check on the destination, then pack_into_slice
pack(src, dst) ==
    IF Len(dst) # EmitterLEN THEN [ok |-> FALSE, err |-> "InvalidAccountData"]
    ELSE [ok |-> TRUE, value |-> pack_into_slice(src)]

\* unpack_unchecked letting through every buffer that holds the 73 bytes
\* unpack_from_slice reads
unpack_unchecked_prefix(input) ==
    IF Len(input) < EmitterLEN THEN [ok |-> FALSE, err |-> "InvalidAccountData"]
    ELSE [ok |-> TRUE, value |-> unpack_from_slice(input)]

\* Pack::unpack_unchecked: the length check, then unpack_from_slice
unpack_unchecked(input) ==
    IF Len(input) # EmitterLEN THEN [ok |-> FALSE, err |-> "InvalidAccountData"]
    ELSE [ok |-> TRUE, value |-> unpack_from_slice(input)]

\* unpack without the is_initialized check
unpack_no_init_check(input) == unpack_unchecked(input)

\* Pack::unpack: unpack_unchecked, then the is_initialized check
unpack(input) ==
    LET u == unpack_unchecked(input) IN
    IF ~u.ok THEN u
    ELSE IF ~is_initialized(u.value) THEN [ok |-> FALSE, err |-> "UninitializedAccount"]
    ELSE u

\* Emitter::slice_next_publishable_nonce: bytes 33..41 of the buffer (0-based)
slice_next_publishable_nonce(input) == from_le_bytes(SubSeq(input, 34, 41))

\* Emitter::increment_publishable_nonce; panics (unwrap of None) at u64::MAX
increment_publishable_nonce(e) ==
    LET r == checked_add_1(e.next_publishable_nonce) IN
    [panicked |-> ~r.some, value |-> [e EXCEPT !.next_publishable_nonce = r.value]]

----------------------------------------------------------------------------
(* The ledger around the emitter *)

Publishers == {"alice", "bob"}

\* system_instruction::transfer(payer, fee_collector, 100)
FeeLamports == 100

\* rent.minimum_balance(Emitter::LEN): (128 + 73) bytes * 3480 lamports * 2 years
RentMinimumBalance == 1398960

\* the address of the emitter account this model follows
EmitterKey == derive_emitter(ProgramId).address

\* no account exists at the address yet
NoAccount == [lamports |-> 0, data |-> <<>>, owner |-> SystemProgramId]

\* the account as a successful initialize_emitter leaves it, after some publishes
ActiveAccount(counter) ==
    [lamports |-> RentMinimumBalance,
     data |-> pack_into_slice(Emitter(ProgramId, derive_emitter(ProgramId).bump, counter, Zeros(32))),
     owner |-> ProgramId]

\* an account of another program whose bytes imitate the emitter record
ForeignAccount ==
    [lamports |-> RentMinimumBalance,
     data |-> pack_into_slice(Emitter(ProgramId, derive_emitter(ProgramId).bump, U64(0), Zeros(32))),
     owner |-> OtherProgramId]

\* a program-owned account of the right size that was never initialized
ZeroedAccount == [lamports |-> RentMinimumBalance, data |-> Zeros(EmitterLEN), owner |-> ProgramId]

\* next_publishable_nonce of the followed account, when it holds a record
Counter == slice_next_publishable_nonce(emitter.data)

HasRecord == Len(emitter.data) = EmitterLEN

Active == HasRecord /\ is_initialized(unpack_from_slice(emitter.data))

\* a nonce that differs from v, for a message slot that is not the current one
OtherNonce(v) == [v EXCEPT ![1] = (v[1] + 1) % (LimbMax + 1)]

----------------------------------------------------------------------------
(* instructions/send_message.rs *)

SendFaults ==
    {"none", "clock", "rent", "system_program", "core_bridge_program", "emitter_foreign",
     "emitter_zeroed", "message", "sequence", "config_owner", "fee_owner"}

\* The ten accounts a transaction passes to send_message (Accounts::from): the
\* right ones for the followed emitter and executing program, or with one of
\* them replaced.
SendAccounts(payer, executing_program_id, fault) ==
    LET em == IF fault = "emitter_foreign" THEN ForeignAccount
              ELSE IF fault = "emitter_zeroed" THEN ZeroedAccount
              ELSE emitter
        key == IF fault \in {"emitter_foreign", "emitter_zeroed"} THEN StrayKey ELSE EmitterKey
        cur == IF Len(em.data) = EmitterLEN THEN slice_next_publishable_nonce(em.data) ELSE U64(0)
        slot == IF fault = "message" THEN OtherNonce(cur) ELSE cur
    IN [payer |-> payer,
        payer_lamports |-> lamports[payer],
        emitter_key |-> key,
        emitter_owner |-> em.owner,
        emitter_data |-> em.data,
        core_bridge_config_owner |-> IF fault = "config_owner" THEN OtherProgramId ELSE WORMHOLE_PROGRAM_ID,
        core_emitter_sequence_key |-> IF fault = "sequence" THEN StrayKey ELSE derive_sequence(key).address,
        core_message_account_key |-> derive_message_pda(executing_program_id, slot).address,
        core_bridge_program_key |-> IF fault = "core_bridge_program" THEN StrayKey ELSE WORMHOLE_PROGRAM_ID,
        core_fee_collector_owner |-> IF fault = "fee_owner" THEN SystemProgramId ELSE WORMHOLE_PROGRAM_ID,
        system_program_key |-> IF fault = "system_program" THEN StrayKey ELSE SystemProgramId,
        clock_key |-> IF fault = "clock" THEN StrayKey ELSE SysvarClockId,
        rent_key |-> IF fault = "rent" THEN StrayKey ELSE SysvarRentId]

\* a validation that leaves out the owner of the fee collector
validate_no_fee_owner(a, emitter_pda, message_pda, sequence_pda, executing_program_id) ==
    IF a.clock_key # SysvarClockId THEN FALSE
    ELSE IF a.rent_key # SysvarRentId THEN FALSE
    ELSE IF a.system_program_key # SystemProgramId THEN FALSE
    ELSE IF a.core_bridge_program_key # WORMHOLE_PROGRAM_ID THEN FALSE
    ELSE IF a.emitter_key # emitter_pda THEN FALSE
    ELSE IF a.core_message_account_key # message_pda THEN FALSE
    ELSE IF a.core_emitter_sequence_key # sequence_pda THEN FALSE
    ELSE IF executing_program_id # a.emitter_owner THEN FALSE
    ELSE IF a.core_bridge_config_owner # a.core_bridge_program_key THEN FALSE
    ELSE IF a.emitter_owner # executing_program_id THEN FALSE
    ELSE TRUE

\* Accounts::validate
validate(a, emitter_pda, message_pda, sequence_pda, executing_program_id) ==
    IF a.clock_key # SysvarClockId THEN FALSE
    ELSE IF a.rent_key # SysvarRentId THEN FALSE
    ELSE IF a.system_program_key # SystemProgramId THEN FALSE
    ELSE IF a.core_bridge_program_key # WORMHOLE_PROGRAM_ID THEN FALSE
    ELSE IF a.emitter_key # emitter_pda THEN FALSE
    ELSE IF a.core_message_account_key # message_pda THEN FALSE
    ELSE IF a.core_emitter_sequence_key # sequence_pda THEN FALSE
    ELSE IF executing_program_id # a.emitter_owner THEN FALSE
    ELSE IF a.core_bridge_config_owner # a.core_bridge_program_key THEN FALSE
    ELSE IF a.core_fee_collector_owner # a.core_bridge_program_key THEN FALSE
    ELSE IF a.emitter_owner # executing_program_id THEN FALSE
    ELSE TRUE

\* The execution context of one send_message call: the account buffers as the
\* program sees them, its locals, and how far it got.
SendContext(a, executing_program_id, post_ok) ==
    [a |-> a,
     executing_program_id |-> executing_program_id,
     post_ok |-> post_ok,
     data |-> a.emitter_data,
     payer_lamports |-> a.payer_lamports,
     posted |-> FALSE,
     sequence_pda |-> PubkeyDefault,
     emitter_pda |-> PubkeyDefault,
     message_pda |-> PubkeyDefault,
     next_publishable_nonce |-> U64(0),
     result |-> "running",
     error |-> "",
     steps |-> <<>>]

Stop(c, result, error) == [c EXCEPT !.result = result, !.error = error]

\* lines 251-260: decode the record, derive the addresses, read the nonce
StepDecode(c) ==
    LET u == unpack(c.data) IN
    IF ~u.ok THEN Stop(c, "Err", u.err)
    ELSE LET emitter_pda == derive_emitter(u.value.owner).address
             npn == slice_next_publishable_nonce(c.data)
         IN [c EXCEPT !.sequence_pda = derive_sequence(emitter_pda).address,
                      !.emitter_pda = emitter_pda,
                      !.next_publishable_nonce = npn,
                      !.message_pda = derive_message_pda(c.executing_program_id, npn).address]

\* line 263: try_validate panics when validate returns false
StepValidate(c) ==
    IF validate(c.a, c.emitter_pda, c.message_pda, c.sequence_pda, c.executing_program_id)
    THEN c
    ELSE Stop(c, "Panic", "invalid accounts")

\* lines 265-266: the system program moves 100 lamports from the payer to the
\* fee collector, or fails when the payer does not hold them
StepFee(c) ==
    IF c.payer_lamports < FeeLamports THEN Stop(c, "Err", "InsufficientFunds")
    ELSE [c EXCEPT !.payer_lamports = c.payer_lamports - FeeLamports]

\* lines 268-280: the core bridge creates the message account at the message
\* slot; it fails when that account exists already, or for a reason of its own
StepPost(c) ==
    IF c.a.core_message_account_key \in messages THEN Stop(c, "Err", "AccountAlreadyInUse")
    ELSE IF ~c.post_ok THEN Stop(c, "Err", "PostMessageFailed")
    ELSE [c EXCEPT !.posted = TRUE]

\* StepIncrement writing back a record with the padding left at its default
StepIncrement_default_padding(c) ==
    LET u == unpack(c.data) IN
    IF ~u.ok THEN Stop(c, "Err", u.err)
    ELSE LET r == checked_add_1(u.value.next_publishable_nonce) IN
         IF ~r.some THEN Stop(c, "Panic", "unwrap on None")
         ELSE [c EXCEPT !.data = pack_into_slice(Emitter(u.value.owner, u.value.nonce, r.value, Zeros(32)))]

\* lines 282-285: unpack, checked_add(1).unwrap(), pack
StepIncrement(c) ==
    LET u == unpack(c.data) IN
    IF ~u.ok THEN Stop(c, "Err", u.err)
    ELSE LET r == checked_add_1(u.value.next_publishable_nonce) IN
         IF ~r.some THEN Stop(c, "Panic", "unwrap on None")
         ELSE [c EXCEPT !.data = pack_into_slice([u.value EXCEPT !.next_publishable_nonce = r.value])]

SendStep(name, c) ==
    LET d == CASE name = "decode" -> StepDecode(c)
               [] name = "validate" -> StepValidate(c)
               [] name = "fee" -> StepFee(c)
               [] name = "post" -> StepPost(c)
               [] name = "increment" -> StepIncrement(c)
    IN [d EXCEPT !.steps = Append(c.steps, name)]

\* send_message with the counter written back before the two invokes
SendOrder_IncrementFirst == <<"decode", "validate", "increment", "fee", "post">>

\* send_message with the fee transfer before the validation of the accounts
SendOrder_FeeFirst == <<"decode", "fee", "validate", "post", "increment">>

\* send_message without the write-back of the counter
SendOrder_NoIncrement == <<"decode", "validate", "fee", "post">>

\* the statements of send_message in program order
SendOrder == <<"decode", "validate", "fee", "post", "increment">>

RECURSIVE RunSend(_, _)
RunSend(c, order) ==
    IF order = <<>> THEN [c EXCEPT !.result = "Ok"]
    ELSE CHOOSE r \in {IF d.result # "running" THEN d ELSE RunSend(d, Tail(order)) :
                        d \in {SendStep(Head(order), c)}} : TRUE

\* Accounts::send_message
send_message(a, executing_program_id, post_ok) ==
    RunSend(SendContext(a, executing_program_id, post_ok), SendOrder)

----------------------------------------------------------------------------
(* instructions/create_emitter.rs *)

InitFaults == {"none", "emitter", "system_program"}

\* the three accounts a transaction passes to initialize_emitter
InitAccounts(payer, fault) ==
    [payer |-> payer,
     payer_lamports |-> lamports[payer],
     emitter_key |-> IF fault = "emitter" THEN StrayKey ELSE EmitterKey,
     emitter |-> IF fault = "emitter" THEN ZeroedAccount ELSE emitter,
     system_program_key |-> IF fault = "system_program" THEN StrayKey ELSE SystemProgramId]

\* InitializeEmitterAccounts::validate
init_validate(a, expected_pda) ==
    IF a.emitter_key # expected_pda THEN FALSE
    ELSE IF a.system_program_key # SystemProgramId THEN FALSE
    ELSE TRUE

\* The system program's create_account as invoked at lines 95-105: it refuses an
\* address that is in use (funded, holding data, or assigned to a program) and
\* a payer that cannot fund it; otherwise the new account is funded, holds
\* `space` zero bytes and belongs to `owner`.
create_account(a, lamports_needed, space, owner) ==
    IF a.emitter.lamports > 0 \/ a.emitter.data # <<>> \/ a.emitter.owner # SystemProgramId
    THEN [ok |-> FALSE, err |-> "AccountAlreadyInUse", account |-> a.emitter, payer_lamports |-> a.payer_lamports]
    ELSE IF a.payer_lamports < lamports_needed
    THEN [ok |-> FALSE, err |-> "InsufficientFunds", account |-> a.emitter, payer_lamports |-> a.payer_lamports]
    ELSE [ok |-> TRUE, err |-> "",
          account |-> [lamports |-> lamports_needed, data |-> Zeros(space), owner |-> owner],
          payer_lamports |-> a.payer_lamports - lamports_needed]

\* rent.is_exempt(lamports, data_len), for the one data length of the model
is_exempt(account) == account.lamports >= RentMinimumBalance

InitOutcome(a, result, error, account, payer_lamports) ==
    [result |-> result, error |-> error, account |-> account, payer_lamports |-> payer_lamports]

\* initialize_emitter storing the owner but not the bump
initialize_emitter_no_bump(program_id, a) ==
    LET d == derive_emitter(program_id) IN
    IF ~init_validate(a, d.address)
    THEN InitOutcome(a, "Panic", "validation failed", a.emitter, a.payer_lamports)
    ELSE LET cr == create_account(a, RentMinimumBalance, EmitterLEN, program_id) IN
         IF ~cr.ok THEN InitOutcome(a, "Err", cr.err, cr.account, cr.payer_lamports)
         ELSE LET u == unpack_unchecked(cr.account.data) IN
              IF ~u.ok THEN InitOutcome(a, "Err", u.err, cr.account, cr.payer_lamports)
              ELSE IF is_initialized(u.value)
              THEN InitOutcome(a, "Err", "AccountAlreadyInitialized", cr.account, cr.payer_lamports)
              ELSE IF ~is_exempt(cr.account)
              THEN InitOutcome(a, "Err", "AccountNotRentExempt", cr.account, cr.payer_lamports)
              ELSE InitOutcome(a, "Ok", "",
                               [cr.account EXCEPT !.data =
                                   pack_into_slice([u.value EXCEPT !.owner = program_id])],
                               cr.payer_lamports)

\* initialize_emitter
initialize_emitter(program_id, a) ==
    LET d == derive_emitter(program_id) IN
    IF ~init_validate(a, d.address)
    THEN InitOutcome(a, "Panic", "validation failed", a.emitter, a.payer_lamports)
    ELSE LET cr == create_account(a, RentMinimumBalance, EmitterLEN, program_id) IN
         IF ~cr.ok THEN InitOutcome(a, "Err", cr.err, cr.account, cr.payer_lamports)
         ELSE LET u == unpack_unchecked(cr.account.data) IN
              IF ~u.ok THEN InitOutcome(a, "Err", u.err, cr.account, cr.payer_lamports)
              ELSE IF is_initialized(u.value)
              THEN InitOutcome(a, "Err", "AccountAlreadyInitialized", cr.account, cr.payer_lamports)
              ELSE IF ~is_exempt(cr.account)
              THEN InitOutcome(a, "Err", "AccountNotRentExempt", cr.account, cr.payer_lamports)
              ELSE InitOutcome(a, "Ok", "",
                               [cr.account EXCEPT !.data =
                                   pack_into_slice([u.value EXCEPT !.owner = program_id, !.nonce = d.bump])],
                               cr.payer_lamports)

----------------------------------------------------------------------------
(* The emitter specification *)

\* what `last` holds about an instruction: its outcome, the statements it
\* ran, the emitter buffer as the program left it, the nonce it read
Outcome(op, result, error, steps, buf, nonce, payer) ==
    [op |-> op, result |-> result, error |-> error, steps |-> steps, buf |-> buf,
     nonce |-> nonce, payer |-> payer]

\* counters an Active emitter starts a behaviour with: a fresh one, one whose
\* low 16 bits are about to carry, and the last two values of the range
InitialCounters == {U64(0), U64(LimbMax), <<LimbMax - 1, LimbMax, LimbMax, LimbMax>>}

\* a publisher that cannot pay the fee, and one that can pay for everything
InitialBalances == {50, 2000000}

\* the packer, the codec and the derivations have not been called
PureIdle ==
    /\ packer = [op |-> "none"]
    /\ codec = [op |-> "none"]
    /\ derived = <<>>
    /\ pure = [op |-> "none"]

BundleIdle ==
    /\ vaa = [signatures |-> <<>>, guardian_set_index |-> 0, well_formed |-> TRUE]
    /\ ledger_set = [status |-> "ok", keys |-> <<>>]
    /\ guardian_set = <<>>
    /\ fetches = 0
    /\ batch_i = 0
    /\ tx_bundle = <<>>
    /\ build = [pc |-> "idle", result |-> "none", error |-> "", batches |-> 0]
    /\ returned = <<>>

InitEmitter ==
    /\ emitter \in {NoAccount} \cup {ActiveAccount(c) : c \in InitialCounters}
    /\ lamports \in [Publishers -> InitialBalances]
    /\ messages = {}
    /\ published = <<>>
    /\ last = Outcome("none", "none", "", <<>>, <<>>, U64(0), "")
    /\ counter0 = IF emitter = NoAccount THEN U64(0) ELSE slice_next_publishable_nonce(emitter.data)
    /\ BundleIdle
    /\ PureIdle

\* One transaction invoking initialize_emitter. The runtime keeps the account
\* changes of an instruction that returned Ok and discards those of one that
\* returned an error or panicked.
InitializeEmitter(payer, program_id, fault) ==
    \E a \in {InitAccounts(payer, fault)} :
    \E r \in {initialize_emitter(program_id, a)} :
       /\ last' = Outcome("initialize_emitter", r.result, r.error, <<>>, r.account.data, U64(0), payer)
       /\ IF r.result = "Ok"
          THEN /\ emitter' = r.account
               /\ lamports' = [lamports EXCEPT ![payer] = r.payer_lamports]
          ELSE UNCHANGED <<emitter, lamports>>
       /\ UNCHANGED <<messages, published, counter0>>
       /\ UNCHANGED <<bundleVars, pureVars>>

\* One transaction invoking send_message; transactions on one account run one
\* after the other.
SendMessage(payer, executing_program_id, fault, post_ok) ==
    /\ Len(published) < MaxPublishes
    /\ \E a \in {SendAccounts(payer, executing_program_id, fault)} :
       \E r \in {send_message(a, executing_program_id, post_ok)} :
          /\ last' = Outcome("send_message", r.result, r.error, r.steps, r.data,
                             r.next_publishable_nonce, payer)
          /\ IF r.result = "Ok"
             THEN /\ emitter' = [emitter EXCEPT !.data = r.data]
                  /\ lamports' = [lamports EXCEPT ![payer] = r.payer_lamports]
                  /\ messages' = messages \cup {a.core_message_account_key}
                  /\ published' = Append(published,
                                         [payer |-> payer, nonce |-> r.next_publishable_nonce,
                                          message |-> a.core_message_account_key])
             ELSE UNCHANGED <<emitter, lamports, messages, published>>
    /\ UNCHANGED counter0
    /\ UNCHANGED <<bundleVars, pureVars>>

Programs == {ProgramId, OtherProgramId}

NextEmitter ==
    \/ \E p \in Publishers, pid \in Programs, f \in InitFaults : InitializeEmitter(p, pid, f)
    \/ \E p \in Publishers, pid \in Programs, f \in SendFaults, ok \in BOOLEAN :
           SendMessage(p, pid, f, ok)

SpecEmitter == InitEmitter /\ [][NextEmitter]_vars

----------------------------------------------------------------------------
(* client/secp256k1_helpers.rs: the signature packer *)

SIGNATURE_SERIALIZED_SIZE == 64

HASHED_PUBKEY_SERIALIZED_SIZE == 20

SIGNATURE_OFFSETS_SERIALIZED_SIZE == 11

U8Max == 255

U16Max == 65535

\* a u16 in little-endian bytes, as bincode writes it
u16_le(x) == <<x % 256, x \div 256>>

\* serialize_offsets with the address offset and the message offset written
\* in each other's place
serialize_offsets_swapped(o) ==
    u16_le(o.signature_offset) \o <<o.signature_instruction_index>>
        \o u16_le(o.message_data_offset) \o <<o.eth_address_instruction_index>>
        \o u16_le(o.eth_address_offset) \o u16_le(o.message_data_size)
        \o <<o.message_instruction_index>>

\* bincode::serialize(&SecpSignatureOffsets), fields in declaration order
serialize_offsets(o) ==
    u16_le(o.signature_offset) \o <<o.signature_instruction_index>>
        \o u16_le(o.eth_address_offset) \o <<o.eth_address_instruction_index>>
        \o u16_le(o.message_data_offset) \o u16_le(o.message_data_size)
        \o <<o.message_instruction_index>>

\* signature_bundle_bytes without the recovery id
signature_bundle_bytes_no_recovery(signature_bundle) ==
    signature_bundle.signature \o signature_bundle.eth_address \o signature_bundle.message

\* lines 77-80: the bytes one entry adds to signature_buffer
signature_bundle_bytes(signature_bundle) ==
    signature_bundle.signature \o <<signature_bundle.recovery_id>>
        \o signature_bundle.eth_address \o signature_bundle.message

\* The for loop at lines 48-81 over the entries lo..hi, entered with `before`
\* bytes in signature_buffer: the offsets records (already serialized) and the
\* bytes these iterations add to signature_buffer. The iterations are taken
\* in order, first the lower half of the range and then the upper half, which
\* starts from the buffer length the lower half leaves; a failed conversion
\* ends the loop.
RECURSIVE PackLoop(_, _, _, _, _, _)
PackLoop(signatures, lo, hi, data_start, instruction_index, before) ==
    IF lo > hi
    THEN [result |-> "running", error |-> "", signature_offsets |-> <<>>, signature_buffer |-> <<>>]
    ELSE IF lo = hi
    THEN LET start == data_start + before
             eth_address_offset == start + SIGNATURE_SERIALIZED_SIZE + 1
             message_data_offset == eth_address_offset + HASHED_PUBKEY_SERIALIZED_SIZE
             message_data_size == Len(signatures[lo].message)
         IN IF start > U16Max \/ eth_address_offset > U16Max \/ message_data_offset > U16Max
                \/ message_data_size > U16Max
            THEN [result |-> "Err", error |-> "TryFromIntError", signature_offsets |-> <<>>,
                  signature_buffer |-> <<>>]
            ELSE [result |-> "running", error |-> "",
                  signature_offsets |-> serialize_offsets(
                      [signature_offset |-> start,
                       signature_instruction_index |-> instruction_index,
                       eth_address_offset |-> eth_address_offset,
                       eth_address_instruction_index |-> instruction_index,
                       message_data_offset |-> message_data_offset,
                       message_data_size |-> message_data_size,
                       message_instruction_index |-> instruction_index]),
                  signature_buffer |-> signature_bundle_bytes(signatures[lo])]
    ELSE CHOOSE r \in
             {IF lower.result # "running" THEN lower
              ELSE CHOOSE q \in
                       {[result |-> upper.result, error |-> upper.error,
                         signature_offsets |-> lower.signature_offsets \o upper.signature_offsets,
                         signature_buffer |-> lower.signature_buffer \o upper.signature_buffer] :
                            upper \in {PackLoop(signatures, (lo + hi) \div 2 + 1, hi, data_start,
                                                instruction_index,
                                                before + Len(lower.signature_buffer))}} : TRUE :
                  lower \in {PackLoop(signatures, lo, (lo + hi) \div 2, data_start,
                                      instruction_index, before)}} : TRUE

\* make_secp256k1_instruction_data without the assert! on the list length
make_secp256k1_instruction_data_no_assert(signatures, instruction_index) ==
    LET acc == PackLoop(signatures, 1, Len(signatures),
                        1 + Len(signatures) * SIGNATURE_OFFSETS_SERIALIZED_SIZE,
                        instruction_index, 0)
    IN IF acc.result # "running" THEN [result |-> acc.result, error |-> acc.error, data |-> <<>>]
       ELSE [result |-> "Ok", error |-> "",
             data |-> <<Len(signatures) % 256>> \o acc.signature_offsets \o acc.signature_buffer]

\* make_secp256k1_instruction_data with data_start not counting the count byte
make_secp256k1_instruction_data_no_count_byte(signatures, instruction_index) ==
    IF Len(signatures) > U8Max
    THEN [result |-> "Panic", error |-> "assertion failed", data |-> <<>>]
    ELSE LET acc == PackLoop(signatures, 1, Len(signatures),
                             Len(signatures) * SIGNATURE_OFFSETS_SERIALIZED_SIZE,
                             instruction_index, 0)
         IN IF acc.result # "running" THEN [result |-> acc.result, error |-> acc.error, data |-> <<>>]
            ELSE [result |-> "Ok", error |-> "",
                  data |-> <<Len(signatures) % 256>> \o acc.signature_offsets \o acc.signature_buffer]

\* make_secp256k1_instruction_data
make_secp256k1_instruction_data(signatures, instruction_index) ==
    IF Len(signatures) > U8Max
    THEN [result |-> "Panic", error |-> "assertion failed", data |-> <<>>]
    ELSE LET acc == PackLoop(signatures, 1, Len(signatures),
                             1 + Len(signatures) * SIGNATURE_OFFSETS_SERIALIZED_SIZE,
                             instruction_index, 0)
         IN IF acc.result # "running" THEN [result |-> acc.result, error |-> acc.error, data |-> <<>>]
            ELSE [result |-> "Ok", error |-> "",
                  data |-> <<Len(signatures) % 256>> \o acc.signature_offsets \o acc.signature_buffer]

----------------------------------------------------------------------------
(* The packer specification: make_secp256k1_instruction_data applied to a
   family of signature lists *)

\* lengths of the lists: every length the packer accepts, and the first it
\* refuses
PackCounts == 0..(U8Max + 1)

\* what the bytes of a list are built from
PackSeeds == {0, 1}

\* values of instruction_index
PackIndices == {0, 1}

\* a list of n SecpSignature values whose fields differ from entry to entry
PackInput(n, seed) ==
    [k \in 1..n |->
        [signature |-> [i \in 1..SIGNATURE_SERIALIZED_SIZE |-> (k + i + seed) % 256],
         recovery_id |-> (k + seed) % 4,
         eth_address |-> [i \in 1..HASHED_PUBKEY_SERIALIZED_SIZE |-> (3 * k + i + seed) % 256],
         message |-> [i \in 1..32 |-> (16 * seed + 5 * k + i) % 256]]]

InitPacker ==
    /\ packer \in {[op |-> "input", signatures |-> PackInput(n, seed), instruction_index |-> ix] :
                      n \in PackCounts, seed \in PackSeeds, ix \in PackIndices}
    /\ codec = [op |-> "none"]
    /\ derived = <<>>
    /\ pure = [op |-> "none"]
    /\ emitter = [lamports |-> 0, data |-> <<>>, owner |-> Pubkey(0)]
    /\ lamports = [p \in {"alice", "bob"} |-> 0]
    /\ messages = {}
    /\ published = <<>>
    /\ last = [op |-> "none"]
    /\ counter0 = U64(0)
    /\ vaa = [signatures |-> <<>>, guardian_set_index |-> 0, well_formed |-> TRUE]
    /\ ledger_set = [status |-> "ok", keys |-> <<>>]
    /\ guardian_set = <<>>
    /\ fetches = 0
    /\ batch_i = 0
    /\ tx_bundle = <<>>
    /\ build = [pc |-> "idle"]
    /\ returned = <<>>

\* one call of make_secp256k1_instruction_data on the list
Pack ==
    /\ packer.op = "input"
    /\ \E r \in {make_secp256k1_instruction_data(packer.signatures, packer.instruction_index)} :
          packer' = [op |-> "packed", signatures |-> packer.signatures,
                     instruction_index |-> packer.instruction_index,
                     result |-> r.result, error |-> r.error, data |-> r.data]
    /\ UNCHANGED <<codec, derived, pure>>
    /\ UNCHANGED <<emitterVars, bundleVars>>

NextPacker == Pack

SpecPacker == InitPacker /\ [][NextPacker]_vars

----------------------------------------------------------------------------
(* The codec specification: Pack for Emitter applied to a family of records
   and of buffers *)

\* a key whose 32 bytes all differ
MixedKey == [i \in 1..32 |-> (7 * i) % 256]

\* the records handed to pack
RecordInputs ==
    {Emitter(owner, nonce, counter, padding) :
        owner \in {PubkeyDefault, ProgramId, WORMHOLE_PROGRAM_ID, MixedKey},
        nonce \in {0, 254, 255},
        counter \in {U64(0), U64(69), U64(LimbMax), <<258, 772, 1286, 1800>>, U64_MAX},
        padding \in {Zeros(32), [i \in 1..32 |-> 1], [i \in 1..32 |-> 255 - i]}}

\* the buffers handed to unpack: every length up to MaxBufLen, all zero or
\* with no zero byte
BufferInputs ==
    {[i \in 1..len |-> IF zero THEN 0 ELSE 1 + ((3 * i) % 251)] : len \in 0..MaxBufLen, zero \in BOOLEAN}

InitCodec ==
    /\ codec \in {[op |-> "record", record |-> r] : r \in RecordInputs}
                 \cup {[op |-> "buffer", buffer |-> b] : b \in BufferInputs}
    /\ packer = [op |-> "none"]
    /\ derived = <<>>
    /\ pure = [op |-> "none"]
    /\ emitter = [lamports |-> 0, data |-> <<>>, owner |-> Pubkey(0)]
    /\ lamports = [p \in {"alice", "bob"} |-> 0]
    /\ messages = {}
    /\ published = <<>>
    /\ last = [op |-> "none"]
    /\ counter0 = U64(0)
    /\ vaa = [signatures |-> <<>>, guardian_set_index |-> 0, well_formed |-> TRUE]
    /\ ledger_set = [status |-> "ok", keys |-> <<>>]
    /\ guardian_set = <<>>
    /\ fetches = 0
    /\ batch_i = 0
    /\ tx_bundle = <<>>
    /\ build = [pc |-> "idle"]
    /\ returned = <<>>

\* Emitter::pack into a zeroed 73-byte buffer, then both decoders on the result
PackRecord ==
    /\ codec.op = "record"
    /\ \E p \in {pack(codec.record, Zeros(EmitterLEN))} :
          codec' = [op |-> "packed", record |-> codec.record, packed |-> p,
                    unchecked |-> IF p.ok THEN unpack_unchecked(p.value) ELSE p,
                    checked |-> IF p.ok THEN unpack(p.value) ELSE p]
    /\ UNCHANGED <<packer, derived, pure>>
    /\ UNCHANGED <<emitterVars, bundleVars>>

\* Emitter::unpack_unchecked and Emitter::unpack on a buffer
UnpackBuffer ==
    /\ codec.op = "buffer"
    /\ codec' = [op |-> "decoded", buffer |-> codec.buffer,
                 unchecked |-> unpack_unchecked(codec.buffer),
                 checked |-> unpack(codec.buffer)]
    /\ UNCHANGED <<packer, derived, pure>>
    /\ UNCHANGED <<emitterVars, bundleVars>>

\* the accounts of a publish by the owner of record e, all of them the right
\* ones, with e packed in the emitter account and a payer that can pay the fee
PublishAccounts(e) ==
    [payer |-> "alice",
     payer_lamports |-> FeeLamports,
     emitter_key |-> derive_emitter(e.owner).address,
     emitter_owner |-> e.owner,
     emitter_data |-> pack_into_slice(e),
     core_bridge_config_owner |-> WORMHOLE_PROGRAM_ID,
     core_emitter_sequence_key |-> derive_sequence(derive_emitter(e.owner).address).address,
     core_message_account_key |-> derive_message_pda(e.owner, e.next_publishable_nonce).address,
     core_bridge_program_key |-> WORMHOLE_PROGRAM_ID,
     core_fee_collector_owner |-> WORMHOLE_PROGRAM_ID,
     system_program_key |-> SystemProgramId,
     clock_key |-> SysvarClockId,
     rent_key |-> SysvarRentId]

\* the counter of a record incremented both ways: by the method on the record
\* (Emitter::increment_publishable_nonce), and by a publish of the record's
\* owner on the packed record (send_message)
IncrementRecord ==
    /\ codec.op = "record"
    /\ \E m \in {increment_publishable_nonce(codec.record)} :
       \E a \in {PublishAccounts(codec.record)} :
       \E r \in {send_message(a, codec.record.owner, TRUE)} :
          codec' = [op |-> "incremented", record |-> codec.record, method |-> m,
                    before |-> a.emitter_data,
                    publish |-> [result |-> r.result, error |-> r.error, steps |-> r.steps,
                                 data |-> r.data, payer_lamports |-> r.payer_lamports,
                                 posted |-> r.posted]]
    /\ UNCHANGED <<packer, derived, pure>>
    /\ UNCHANGED <<emitterVars, bundleVars>>

NextCodec == PackRecord \/ UnpackBuffer \/ IncrementRecord

SpecCodec == InitCodec /\ [][NextCodec]_vars

----------------------------------------------------------------------------
(* client/vaa_verification_bundle.rs and instructions/verify_signature.rs *)

BATCH_SIZE == 7

MAX_LEN_GUARDIAN_KEYS == 19

\* get_batches_floor: the division truncated instead of rounded up
get_batches_floor(signature_length) == signature_length \div BATCH_SIZE

\* get_batches: the quotient of the two counts as f64 (exact for counts below
\* 2^53), rounded up by ceil() and cast back
get_batches(signature_length) ==
    LET whole == signature_length \div BATCH_SIZE
        fraction == signature_length % BATCH_SIZE
    IN IF fraction = 0 THEN whole ELSE whole + 1

Min(a, b) == IF a < b THEN a ELSE b

\* SignatureBatchParameters::new with an end that is one short
SignatureBatchParameters_short(loop_iteration, signature_length) ==
    [start |-> loop_iteration * BATCH_SIZE,
     end |-> Min(signature_length, (loop_iteration + 1) * BATCH_SIZE - 1)]

\* SignatureBatchParameters::new
SignatureBatchParameters(loop_iteration, signature_length) ==
    [start |-> loop_iteration * BATCH_SIZE,
     end |-> Min(signature_length, (loop_iteration + 1) * BATCH_SIZE)]

\* [-1_i8; MAX_LEN_GUARDIAN_KEYS]
NoSigners == [g \in 1..MAX_LEN_GUARDIAN_KEYS |-> -1]

\* std::mem::take leaves the default value, [0u8; 20], in the vector
TakenKey == Zeros(HASHED_PUBKEY_SERIALIZED_SIZE)

\* the account keys of the model's fee payer and signature-set account
Payer == Pubkey(20)

SignatureSetKey == Pubkey(21)

Secp256k1ProgramId == Pubkey(6)

SysvarInstructionsId == Pubkey(7)

derive_guardian_set(guardian_set_index) ==
    find_program_address(106, <<0, 0, 0, guardian_set_index>>, WORMHOLE_PROGRAM_ID)

\* deser_vaa.body.digest(): the 32-byte hash the guardians signed
VerificationHash == [i \in 1..32 |-> 170]

\* create_verify_signature_ix
create_verify_signature_ix(payer, guardian_set_index, signature_set, data) ==
    [program_id |-> WORMHOLE_PROGRAM_ID,
     accounts |-> <<payer, derive_guardian_set(guardian_set_index).address, signature_set,
                    SysvarInstructionsId, SysvarRentId, SystemProgramId>>,
     signers |-> data.signers]

\* BatchLoop with a bounds check that skips a signature whose guardian index
\* is out of range instead of panicking
RECURSIVE BatchLoop_skip(_, _, _, _)
BatchLoop_skip(signatures, batch_params, j, st) ==
    IF j >= batch_params.end - batch_params.start \/ st.result # "running" THEN st
    ELSE LET guardian_signature == signatures[j + batch_params.start + 1]
             index == guardian_signature.guardian_set_index
         IN IF index >= Len(st.signature_status) \/ index >= Len(st.keys)
            THEN BatchLoop_skip(signatures, batch_params, j + 1, st)
            ELSE CHOOSE r \in {BatchLoop_skip(signatures, batch_params, j + 1, next) :
                     next \in {[st EXCEPT
                         !.signature_status[index + 1] = j,
                         !.signatures = Append(@, guardian_signature.signature),
                         !.keys[index + 1] = TakenKey,
                         !.guardian_keys = Append(@, st.keys[index + 1]),
                         !.secp_signatures = Append(@,
                             [signature |-> SubSeq(guardian_signature.signature, 1, SIGNATURE_SERIALIZED_SIZE),
                              recovery_id |-> guardian_signature.signature[SIGNATURE_SERIALIZED_SIZE + 1],
                              eth_address |-> st.keys[index + 1],
                              message |-> VerificationHash])]}} : TRUE

\* BatchLoop reading the guardian key by copy: the key stays in the vector
RECURSIVE BatchLoop_copy(_, _, _, _)
BatchLoop_copy(signatures, batch_params, j, st) ==
    IF j >= batch_params.end - batch_params.start \/ st.result # "running" THEN st
    ELSE LET guardian_signature == signatures[j + batch_params.start + 1]
             index == guardian_signature.guardian_set_index
         IN IF index >= Len(st.signature_status)
            THEN [st EXCEPT !.result = "Panic", !.error = "index out of bounds: signature_status"]
            ELSE IF index >= Len(st.keys)
            THEN [st EXCEPT !.signature_status[index + 1] = j,
                            !.signatures = Append(@, guardian_signature.signature),
                            !.result = "Panic", !.error = "index out of bounds: guardian_set.keys"]
            ELSE CHOOSE r \in {BatchLoop_copy(signatures, batch_params, j + 1, next) :
                     next \in {[st EXCEPT
                         !.signature_status[index + 1] = j,
                         !.signatures = Append(@, guardian_signature.signature),
                         !.guardian_keys = Append(@, st.keys[index + 1]),
                         !.secp_signatures = Append(@,
                             [signature |-> SubSeq(guardian_signature.signature, 1, SIGNATURE_SERIALIZED_SIZE),
                              recovery_id |-> guardian_signature.signature[SIGNATURE_SERIALIZED_SIZE + 1],
                              eth_address |-> st.keys[index + 1],
                              message |-> VerificationHash])]}} : TRUE

\* The body of the inner loop (lines 66-86), from entry j of the batch on. st
\* carries signature_status, guardian_set.keys and the three vectors.
RECURSIVE BatchLoop(_, _, _, _)
BatchLoop(signatures, batch_params, j, st) ==
    IF j >= batch_params.end - batch_params.start \/ st.result # "running" THEN st
    ELSE LET guardian_signature == signatures[j + batch_params.start + 1]
             index == guardian_signature.guardian_set_index
         IN IF index >= Len(st.signature_status)
            THEN [st EXCEPT !.result = "Panic", !.error = "index out of bounds: signature_status"]
            ELSE IF index >= Len(st.keys)
            THEN [st EXCEPT !.signature_status[index + 1] = j,
                            !.signatures = Append(@, guardian_signature.signature),
                            !.result = "Panic", !.error = "index out of bounds: guardian_set.keys"]
            ELSE CHOOSE r \in {BatchLoop(signatures, batch_params, j + 1, next) :
                     next \in {[st EXCEPT
                         !.signature_status[index + 1] = j,
                         !.signatures = Append(@, guardian_signature.signature),
                         !.keys[index + 1] = TakenKey,
                         !.guardian_keys = Append(@, st.keys[index + 1]),
                         !.secp_signatures = Append(@,
                             [signature |-> SubSeq(guardian_signature.signature, 1, SIGNATURE_SERIALIZED_SIZE),
                              recovery_id |-> guardian_signature.signature[SIGNATURE_SERIALIZED_SIZE + 1],
                              eth_address |-> st.keys[index + 1],
                              message |-> VerificationHash])]}} : TRUE

\* One iteration of the outer loop (lines 55-104) for batch i with the keys
\* left in guardian_set: the outcome, the keys afterwards, and the transaction.
process_batch(signatures, guardian_set_index, keys, i) ==
    LET batch_params == SignatureBatchParameters(i, Len(signatures))
        st == BatchLoop(signatures, batch_params, 0,
                        [result |-> "running", error |-> "", signature_status |-> NoSigners,
                         keys |-> keys, signatures |-> <<>>, guardian_keys |-> <<>>,
                         secp_signatures |-> <<>>])
    IN IF st.result # "running" THEN [result |-> st.result, error |-> st.error, keys |-> st.keys, tx |-> <<>>]
       ELSE LET packed == make_secp256k1_instruction_data(st.secp_signatures, 0) IN
            IF packed.result # "Ok"
            THEN [result |-> packed.result, error |-> packed.error, keys |-> st.keys, tx |-> <<>>]
            ELSE [result |-> "Ok", error |-> "", keys |-> st.keys,
                  tx |-> [payer |-> Payer,
                          batch_params |-> batch_params,
                          secp_signatures |-> st.secp_signatures,
                          instructions |->
                              <<[program_id |-> Secp256k1ProgramId, accounts |-> <<>>,
                                 data |-> packed.data],
                                create_verify_signature_ix(Payer, guardian_set_index, SignatureSetKey,
                                                           [signers |-> st.signature_status])>>]]

----------------------------------------------------------------------------
(* The bundle-build specification *)

\* the 65 bytes of the k-th signature of the input: 64 signature bytes and
\* the recovery id
SignatureBytes(k) == [i \in 1..65 |-> IF i = 65 THEN k % 2 ELSE (k + i) % 256]

\* guardian index of the first signature of an input
FirstIndices == {0, 2, 5}

\* 0: the guardian indices ascend by one from the first; d > 0: the signature
\* after the d-th repeats the d-th's guardian index
DupPositions == {0, 1, 7}

\* the signature list of an input VAA
InputSignatures(n, first, dup) ==
    [k \in 1..n |->
        [guardian_set_index |-> IF dup > 0 /\ k = dup + 1 THEN first + k - 2 ELSE first + k - 1,
         signature |-> SignatureBytes(k)]]

\* number of keys in the guardian-set account on the ledger
GuardianSetSizes == {13, 19}

\* the 20-byte address of guardian g
GuardianAddress(g) == [i \in 1..HASHED_PUBKEY_SERIALIZED_SIZE |-> g + 1]

EmitterIdle ==
    /\ emitter = NoAccount
    /\ lamports = [p \in Publishers |-> 0]
    /\ messages = {}
    /\ published = <<>>
    /\ last = Outcome("none", "none", "", <<>>, <<>>, U64(0), "")
    /\ counter0 = U64(0)

InitBundle ==
    /\ vaa \in {[signatures |-> InputSignatures(n, first, dup), guardian_set_index |-> 3,
                 well_formed |-> wf] :
                   n \in 0..MaxSigs, first \in FirstIndices, dup \in DupPositions, wf \in BOOLEAN}
    /\ ledger_set \in {[status |-> st, keys |-> [g \in 1..size |-> GuardianAddress(g - 1)]] :
                          st \in {"ok", "rpc_error", "bad_data"}, size \in GuardianSetSizes}
    /\ guardian_set = <<>>
    /\ fetches = 0
    /\ batch_i = 0
    /\ tx_bundle = <<>>
    /\ build = [pc |-> "start", result |-> "none", error |-> "", batches |-> 0]
    /\ returned = <<>>
    /\ EmitterIdle
    /\ PureIdle

Done(result, error) == [build EXCEPT !.pc = "done", !.result = result, !.error = error]

\* lines 44-53: parse the VAA, fetch and decode the guardian set, plan the
\* batches, allocate the bundle
Begin ==
    /\ build.pc = "start"
    /\ IF ~vaa.well_formed
       THEN /\ build' = Done("Err", "deser_vaa")
            /\ UNCHANGED <<fetches, guardian_set>>
       ELSE /\ fetches' = fetches + 1
            /\ IF ledger_set.status = "rpc_error"
               THEN /\ build' = Done("Err", "failed to get account data")
                    /\ UNCHANGED guardian_set
               ELSE IF ledger_set.status = "bad_data"
               THEN /\ build' = Done("Err", "failed to parse account data")
                    /\ UNCHANGED guardian_set
               ELSE /\ build' = [build EXCEPT !.pc = "loop",
                                                 !.batches = get_batches(Len(vaa.signatures))]
                    /\ guardian_set' = ledger_set.keys
    /\ UNCHANGED <<vaa, ledger_set, batch_i, tx_bundle, returned>>
    /\ UNCHANGED <<emitterVars, pureVars>>

\* ProcessBatch with the new transaction put in front of the bundle
ProcessBatch_prepend ==
    /\ build.pc = "loop"
    /\ batch_i < build.batches
    /\ \E r \in {process_batch(vaa.signatures, vaa.guardian_set_index, guardian_set, batch_i)} :
          /\ guardian_set' = r.keys
          /\ IF r.result = "Ok"
             THEN /\ tx_bundle' = <<r.tx>> \o tx_bundle
                  /\ batch_i' = batch_i + 1
                  /\ UNCHANGED build
             ELSE /\ build' = Done(r.result, r.error)
                  /\ UNCHANGED <<tx_bundle, batch_i>>
    /\ UNCHANGED <<vaa, ledger_set, fetches, returned>>
    /\ UNCHANGED <<emitterVars, pureVars>>

\* ProcessBatch handing the transactions built so far to the caller when a
\* batch fails
ProcessBatch_partial ==
    /\ build.pc = "loop"
    /\ batch_i < build.batches
    /\ \E r \in {process_batch(vaa.signatures, vaa.guardian_set_index, guardian_set, batch_i)} :
          /\ guardian_set' = r.keys
          /\ IF r.result = "Ok"
             THEN /\ tx_bundle' = Append(tx_bundle, r.tx)
                  /\ batch_i' = batch_i + 1
                  /\ UNCHANGED <<build, returned>>
             ELSE /\ build' = Done(r.result, r.error)
                  /\ returned' = tx_bundle
                  /\ UNCHANGED <<tx_bundle, batch_i>>
    /\ UNCHANGED <<vaa, ledger_set, fetches>>
    /\ UNCHANGED <<emitterVars, pureVars>>

\* ProcessBatch fetching the guardian set anew for every batch
ProcessBatch_refetch ==
    /\ build.pc = "loop"
    /\ batch_i < build.batches
    /\ fetches' = fetches + 1
    /\ \E r \in {process_batch(vaa.signatures, vaa.guardian_set_index, ledger_set.keys, batch_i)} :
          /\ guardian_set' = r.keys
          /\ IF r.result = "Ok"
             THEN /\ tx_bundle' = Append(tx_bundle, r.tx)
                  /\ batch_i' = batch_i + 1
                  /\ UNCHANGED build
             ELSE /\ build' = Done(r.result, r.error)
                  /\ UNCHANGED <<tx_bundle, batch_i>>
    /\ UNCHANGED <<vaa, ledger_set, returned>>
    /\ UNCHANGED <<emitterVars, pureVars>>

\* lines 55-104: one iteration of `for i in 0..batches`
ProcessBatch ==
    /\ build.pc = "loop"
    /\ batch_i < build.batches
    /\ \E r \in {process_batch(vaa.signatures, vaa.guardian_set_index, guardian_set, batch_i)} :
          /\ guardian_set' = r.keys
          /\ IF r.result = "Ok"
             THEN /\ tx_bundle' = Append(tx_bundle, r.tx)
                  /\ batch_i' = batch_i + 1
                  /\ UNCHANGED build
             ELSE /\ build' = Done(r.result, r.error)
                  /\ UNCHANGED <<tx_bundle, batch_i>>
    /\ UNCHANGED <<vaa, ledger_set, fetches, returned>>
    /\ UNCHANGED <<emitterVars, pureVars>>

\* line 106: Ok(tx_bundle), once the loop has run through all batches
Return ==
    /\ build.pc = "loop"
    /\ batch_i >= build.batches
    /\ build' = Done("Ok", "")
    /\ returned' = tx_bundle
    /\ UNCHANGED <<vaa, ledger_set, guardian_set, fetches, batch_i, tx_bundle>>
    /\ UNCHANGED <<emitterVars, pureVars>>

NextBundle == Begin \/ ProcessBatch \/ Return

SpecBundle == InitBundle /\ [][NextBundle]_vars

----------------------------------------------------------------------------
(* utils/derivations.rs: the remaining derivation *)

derive_posted_vaa(payload_hash) == find_program_address(107, payload_hash, WORMHOLE_PROGRAM_ID)

----------------------------------------------------------------------------
(* The derivation specification: the derive_* functions called one after the
   other in any order *)

\* the calls: the function and its argument list
DeriveCalls ==
    {[fn |-> "derive_message_pda", arg |-> <<pid, nonce>>] :
         pid \in {ProgramId, OtherProgramId}, nonce \in {U64(0), U64(1)}}
    \cup {[fn |-> "derive_sequence", arg |-> <<pda>>] :
              pda \in {derive_emitter(ProgramId).address, StrayKey}}
    \cup {[fn |-> "derive_emitter", arg |-> <<pid>>] : pid \in {ProgramId, OtherProgramId}}
    \cup {[fn |-> "derive_core_bridge_config", arg |-> <<>>],
          [fn |-> "derive_core_fee_collector", arg |-> <<>>]}
    \cup {[fn |-> "derive_guardian_set", arg |-> <<index>>] : index \in {0, 3}}
    \cup {[fn |-> "derive_posted_vaa", arg |-> <<hash>>] : hash \in {VerificationHash, Zeros(32)}}

\* what the call returns
DeriveResult(c) ==
    CASE c.fn = "derive_message_pda" -> derive_message_pda(c.arg[1], c.arg[2])
      [] c.fn = "derive_sequence" -> derive_sequence(c.arg[1])
      [] c.fn = "derive_emitter" -> derive_emitter(c.arg[1])
      [] c.fn = "derive_core_bridge_config" -> derive_core_bridge_config
      [] c.fn = "derive_core_fee_collector" -> derive_core_fee_collector
      [] c.fn = "derive_guardian_set" -> derive_guardian_set(c.arg[1])
      [] c.fn = "derive_posted_vaa" -> derive_posted_vaa(c.arg[1])

InitDerive ==
    /\ derived = <<>>
    /\ packer = [op |-> "none"]
    /\ codec = [op |-> "none"]
    /\ pure = [op |-> "none"]
    /\ emitter = [lamports |-> 0, data |-> <<>>, owner |-> Pubkey(0)]
    /\ lamports = [p \in {"alice", "bob"} |-> 0]
    /\ messages = {}
    /\ published = <<>>
    /\ last = [op |-> "none"]
    /\ counter0 = U64(0)
    /\ vaa = [signatures |-> <<>>, guardian_set_index |-> 0, well_formed |-> TRUE]
    /\ ledger_set = [status |-> "ok", keys |-> <<>>]
    /\ guardian_set = <<>>
    /\ fetches = 0
    /\ batch_i = 0
    /\ tx_bundle = <<>>
    /\ build = [pc |-> "idle"]
    /\ returned = <<>>

\* one call of a derive_* function
Derive(c) ==
    /\ Len(derived) < MaxDerives
    /\ derived' = Append(derived, [fn |-> c.fn, arg |-> c.arg, result |-> DeriveResult(c)])
    /\ UNCHANGED <<packer, codec, pure>>
    /\ UNCHANGED <<emitterVars, bundleVars>>

NextDerive == \E c \in DeriveCalls : Derive(c)

SpecDerive == InitDerive /\ [][NextDerive]_vars

----------------------------------------------------------------------------
(* instructions/post_vaa.rs: the body of a VAA and its hash *)

\* a u32 is two 16-bit limbs and a u64 four, least significant first; a u16 is
\* a number
U32(n) == <<n, 0>>
u16_to_be_bytes(x) == <<x \div 256, x % 256>>
u32_to_be_bytes(v) == u16_to_be_bytes(v[2]) \o u16_to_be_bytes(v[1])
u64_to_be_bytes(v) ==
    u16_to_be_bytes(v[4]) \o u16_to_be_bytes(v[3]) \o u16_to_be_bytes(v[2]) \o u16_to_be_bytes(v[1])

PostVAADataIx(version, guardian_set_index, timestamp, nonce, emitter_chain, emitter_address, sequence, consistency_level, payload) ==
    [version |-> version, guardian_set_index |-> guardian_set_index,
     timestamp |-> timestamp, nonce |-> nonce, emitter_chain |-> emitter_chain,
     emitter_address |-> emitter_address, sequence |-> sequence,
     consistency_level |-> consistency_level, payload |-> payload]

\* a serialization that also writes the two header fields
serialize_vaa_with_header(v) ==
    <<v.version>>
    \o u32_to_be_bytes(v.guardian_set_index)
    \o u32_to_be_bytes(v.timestamp)
    \o u32_to_be_bytes(v.nonce)
    \o u16_to_be_bytes(v.emitter_chain)
    \o v.emitter_address
    \o u64_to_be_bytes(v.sequence)
    \o <<v.consistency_level>>
    \o v.payload

\* the writes of serialize_vaa in the order the code makes them; version and
\* guardian_set_index are not written
serialize_vaa(v) ==
    u32_to_be_bytes(v.timestamp)
    \o u32_to_be_bytes(v.nonce)
    \o u16_to_be_bytes(v.emitter_chain)
    \o v.emitter_address
    \o u64_to_be_bytes(v.sequence)
    \o <<v.consistency_level>>
    \o v.payload

\* Keccak256 stands as the digest of exactly the bytes it was fed: two digests
\* are equal when, and only when, the bytes are
keccak256(bytes) == [digest_of |-> bytes]

hash_vaa(v) == CHOOSE h \in {keccak256(b) : b \in {serialize_vaa(v)}} : TRUE

----------------------------------------------------------------------------
(* Pure functions: serialize_vaa and hash_vaa *)

\* a timestamp, a nonce and a sequence whose bytes are all different, next to
\* the smallest and the largest values
VaaTimestamps == {U32(0), <<772, 258>>}
VaaNonces == {U32(1), <<LimbMax, LimbMax>>}
VaaChains == {1, 513}
VaaSequences == {U64(0), <<2055, 1541, 1027, 513>>}
VaaLevels == {1, 200}
VaaPayloads == {<<>>, <<7>>, [i \in 1..11 |-> 100 + i]}

VaaInputs ==
    {PostVAADataIx(1, U32(3), t, n, c, a, q, l, p) :
        t \in VaaTimestamps, n \in VaaNonces, c \in VaaChains,
        a \in {MixedKey, Pubkey(9)}, q \in VaaSequences, l \in VaaLevels,
        p \in VaaPayloads}

\* the same VAA body under another header
OtherHeader(v) == [v EXCEPT !.version = 2, !.guardian_set_index = <<4, 1>>]

\* PostVAADataIx::hash_vaa, which serializes the body and hashes it, called on
\* the VAA and on the same body under another header
HashVaa ==
    /\ pure.op = "vaa"
    /\ \E b \in {serialize_vaa(pure.vaa)}, h \in {hash_vaa(pure.vaa)},
          o \in {hash_vaa(OtherHeader(pure.vaa))} :
          pure' = [op |-> "hashed", vaa |-> pure.vaa, serialized |-> b, hash |-> h,
                   hash_other_header |-> o]
    /\ UNCHANGED <<packer, codec, derived>>
    /\ UNCHANGED <<emitterVars, bundleVars>>

----------------------------------------------------------------------------
(* message_payload.rs: Payload *)

Payload(payload_id, data) == [payload_id |-> payload_id, data |-> data]

\* a serialization with the length written little-endian
serialize_le(p) ==
    LET len == Len(p.data) % (U16Max + 1)
    IN <<p.payload_id, len % 256, len \div 256>> \o p.data

\* Payload::serialize: the id, the length cast to u16 and written big-endian,
\* then every byte of the data
serialize(p) ==
    <<p.payload_id>> \o u16_to_be_bytes(Len(p.data) % (U16Max + 1)) \o p.data

\* Payload::deserialize: read everything, then index and slice; an index or a
\* slice past the end panics
deserialize(bytes) ==
    IF Len(bytes) < 3 THEN [result |-> "Panic", value |-> Payload(0, <<>>)]
    ELSE LET payload_id == bytes[1]
             length == 256 * bytes[2] + bytes[3]
         IN IF 3 + length > Len(bytes) THEN [result |-> "Panic", value |-> Payload(0, <<>>)]
            ELSE [result |-> "Ok",
                  value |-> Payload(payload_id, [i \in 1..length |-> bytes[3 + i]])]

----------------------------------------------------------------------------
(* Pure functions: the Payload round trip *)

\* data lengths around one byte of length, around two, and past them
PayloadLens == {0, 1, 11, 255, 256, 257, U16Max, U16Max + 1}
PayloadFills == {3, 7}
PayloadInputs ==
    {Payload(id, [i \in 1..n |-> (fill * i + id) % 256]) :
        id \in {0, 1, 255}, n \in PayloadLens, fill \in PayloadFills}

\* serialize, then deserialize what came out
RoundTrip ==
    /\ pure.op = "payload"
    /\ \E b \in {serialize(pure.payload)} :
          \E d \in {deserialize(b)} :
             pure' = [op |-> "round_trip", payload |-> pure.payload, serialized |-> b,
                      deserialized |-> d]
    /\ UNCHANGED <<packer, codec, derived>>
    /\ UNCHANGED <<emitterVars, bundleVars>>

----------------------------------------------------------------------------
(* Pure functions: Accounts::validate *)

\* the program the core bridge accounts are checked against, another program,
\* and a key that is no program of the model
AccountOwners == {WORMHOLE_PROGRAM_ID, OtherProgramId, StrayKey}

\* the addresses send_message derives for the emitter of ProgramId at nonce 0
ExpectedEmitter == derive_emitter(ProgramId).address
ExpectedMessage == derive_message_pda(ProgramId, U64(0)).address
ExpectedSequence == derive_sequence(ExpectedEmitter).address

\* account lists in which every checked key is the expected one or a stray
\* one, and every checked owner one of several programs
ValidateAccounts ==
    {[payer |-> "alice",
      payer_lamports |-> 0,
      emitter_key |-> ek,
      emitter_owner |-> eo,
      emitter_data |-> <<>>,
      core_bridge_config_owner |-> co,
      core_emitter_sequence_key |-> sk,
      core_message_account_key |-> mk,
      core_bridge_program_key |-> bk,
      core_fee_collector_owner |-> fo,
      system_program_key |-> yk,
      clock_key |-> ck,
      rent_key |-> rk] :
        ek \in {ExpectedEmitter, StrayKey}, eo \in {ProgramId, OtherProgramId},
        co \in AccountOwners, fo \in AccountOwners,
        sk \in {ExpectedSequence, StrayKey}, mk \in {ExpectedMessage, StrayKey},
        bk \in {WORMHOLE_PROGRAM_ID, StrayKey}, yk \in {SystemProgramId, StrayKey},
        ck \in {SysvarClockId, StrayKey}, rk \in {SysvarRentId, StrayKey}}

\* one call of Accounts::validate with the expected addresses
Validate ==
    /\ pure.op = "accounts"
    /\ \E r \in {validate(pure.accounts, ExpectedEmitter, ExpectedMessage, ExpectedSequence,
                          pure.executing_program_id)} :
          pure' = [op |-> "validated", accounts |-> pure.accounts,
                   executing_program_id |-> pure.executing_program_id, valid |-> r]
    /\ UNCHANGED <<packer, codec, derived>>
    /\ UNCHANGED <<emitterVars, bundleVars>>

----------------------------------------------------------------------------
(* Pure functions: the specification *)

InitPure ==
    /\ pure \in {[op |-> "vaa", vaa |-> v] : v \in VaaInputs}
                \cup {[op |-> "payload", payload |-> p] : p \in PayloadInputs}
                \cup {[op |-> "accounts", accounts |-> a, executing_program_id |-> x] :
                         a \in ValidateAccounts, x \in {ProgramId, OtherProgramId}}
    /\ packer = [op |-> "none"]
    /\ codec = [op |-> "none"]
    /\ derived = <<>>
    /\ EmitterIdle
    /\ BundleIdle

NextPure == HashVaa \/ RoundTrip \/ Validate

SpecPure == InitPure /\ [][NextPure]_vars

----------------------------------------------------------------------------
(* Arithmetic on u64 values used to state the properties *)

\* b = a + 1 in the integers
IsSucc(a, b) ==
    \E k \in 1..4 :
        /\ a[k] < LimbMax
        /\ b[k] = a[k] + 1
        /\ \A j \in 1..4 : (j < k => a[j] = LimbMax /\ b[j] = 0) /\ (j > k => b[j] = a[j])

\* a < b in the integers
U64Lt(a, b) == \E k \in 1..4 : a[k] < b[k] /\ \A j \in 1..4 : j > k => a[j] = b[j]

\* a + n modulo 2^64, for a small n
U64Add(a, n) ==
    LET s1 == a[1] + n
        s2 == a[2] + s1 \div (LimbMax + 1)
        s3 == a[3] + s2 \div (LimbMax + 1)
        s4 == a[4] + s3 \div (LimbMax + 1)
    IN <<s1 % (LimbMax + 1), s2 % (LimbMax + 1), s3 % (LimbMax + 1), s4 % (LimbMax + 1)>>

EmissionErrors == {"InsufficientFunds", "AccountAlreadyInUse", "PostMessageFailed"}

----------------------------------------------------------------------------
(* Properties of the emitter sequencer *)

\* C1: a publish on an Active emitter leaves next_publishable_nonce unchanged
\* or one larger; it is one larger exactly when the publish returned Ok, and it
\* never decreases.
C1_NonceStepsByOne ==
    [][(Active /\ last'.op = "send_message") =>
          /\ (last'.result = "Ok" => IsSucc(Counter, Counter'))
          /\ (last'.result # "Ok" => Counter' = Counter)
          /\ ~U64Lt(Counter', Counter)]_vars

\* C1 witness: two publishes succeeded and a later one failed
C1_Witness ==
    /\ Len(published) >= 2
    /\ last.op = "send_message"
    /\ last.result = "Err"

\* C2: the nonces read by the successful publishes are strictly increasing in
\* the order of publication, so no two of them derive the same message slot.
C2_PublishedNoncesIncrease ==
    \A i, j \in 1..Len(published) :
        i < j => /\ U64Lt(published[i].nonce, published[j].nonce)
                 /\ published[i].message # published[j].message

\* C2 witness: two publishes succeeded, the second across a 16-bit carry
C2_Witness ==
    /\ Len(published) >= 2
    /\ published[1].nonce[1] = LimbMax
    /\ published[2].nonce[1] = 0

\* C3: when the fee transfer or the post-message call fails, the emitter
\* buffer the program leaves behind, and the account, hold the 73 bytes the
\* publish started with.
C3_FailedEmissionWritesNothing ==
    [][(last'.op = "send_message" /\ last'.result = "Err" /\ last'.error \in EmissionErrors) =>
          /\ last'.buf = emitter.data
          /\ emitter'.data = emitter.data
          /\ Len(last'.buf) = EmitterLEN]_vars

\* C3 witness: a publish got as far as the post-message call, which failed
C3_Witness ==
    /\ last.op = "send_message"
    /\ last.error = "PostMessageFailed"
    /\ last.steps = <<"decode", "validate", "fee", "post">>

\* C4: at u64::MAX no publish succeeds, one that reaches the increment
\* panics, and the counter stays at u64::MAX (it never wraps to 0).
C4_NoWrapAtMax ==
    [][(Active /\ Counter = U64_MAX) =>
          /\ Active'
          /\ Counter' = U64_MAX
          /\ (last'.op = "send_message" => last'.result # "Ok")
          /\ (last'.op = "send_message" /\ last'.steps = SendOrder => last'.result = "Panic")]_vars

\* C4 witness: a publish at u64::MAX ran into the overflow
C4_Witness ==
    /\ Active
    /\ Counter = U64_MAX
    /\ last.op = "send_message"
    /\ last.result = "Panic"
    /\ last.error = "unwrap on None"

\* C5 (as claimed): initialize_emitter on an Active record fails with
\* AccountAlreadyInitialized and leaves the record unchanged, and an Active
\* record stays Active.
C5_ReinitializeAlreadyInitialized ==
    [][Active =>
          /\ Active'
          /\ (last'.op = "initialize_emitter" /\ last'.error # "validation failed" =>
                 /\ last'.result = "Err"
                 /\ last'.error = "AccountAlreadyInitialized"
                 /\ emitter' = emitter)]_vars

\* C6: with several publishers whose transactions run one after the other, no
\* two successful publishes read the same nonce, and the counter equals the
\* counter the emitter started from plus the number of successful publishes.
C6_SerializedPublishers ==
    /\ \A i, j \in 1..Len(published) : i # j => published[i].nonce # published[j].nonce
    /\ HasRecord => Counter = U64Add(counter0, Len(published))

\* C6 witness: both publishers have published on the emitter
C6_Witness ==
    /\ Len(published) >= 2
    /\ \E i, j \in 1..Len(published) : published[i].payer # published[j].payer

----------------------------------------------------------------------------
(* Properties of the batch planner and the bundle builder *)

\* b is the least number of batches of BATCH_SIZE that hold n signatures
IsCeilOfSevenths(b, n) == b >= 0 /\ BATCH_SIZE * b >= n /\ BATCH_SIZE * (b - 1) < n

\* C7: the batch count the build plans is ceil(n / 7) for the n signatures of
\* its input; 0 signatures give 0 batches and 13 give 2.
C7_BatchCountIsCeil ==
    build.pc \in {"loop", "done"} /\ guardian_set # <<>> =>
        /\ IsCeilOfSevenths(build.batches, Len(vaa.signatures))
        /\ (Len(vaa.signatures) = 0 => build.batches = 0)
        /\ (Len(vaa.signatures) = 13 => build.batches = 2)

\* C7 witness: a build of 13 signatures planned its batches
C7_Witness ==
    /\ build.pc = "loop"
    /\ Len(vaa.signatures) = 13
    /\ build.batches = 2

\* the range of batch i of the input
BatchRange(i) == SignatureBatchParameters(i, Len(vaa.signatures))

\* C8: the ranges of batches 0 .. get_batches(n)-1 tile [0, n): the first
\* starts at 0, each next starts where the previous ended, the last ends at n,
\* and each is non-empty and holds at most 7.
C8_BatchesTile ==
    LET n == Len(vaa.signatures)
        b == get_batches(n)
    IN /\ (b > 0 => BatchRange(0).start = 0 /\ BatchRange(b - 1).end = n)
       /\ (b = 0 => n = 0)
       /\ \A i \in 0..(b - 2) : BatchRange(i + 1).start = BatchRange(i).end
       /\ \A i \in 0..(b - 1) :
              /\ BatchRange(i).start < BatchRange(i).end
              /\ BatchRange(i).end - BatchRange(i).start <= BATCH_SIZE
       /\ \A k \in 1..Len(tx_bundle) : tx_bundle[k].batch_params = BatchRange(k - 1)

\* C8 witness: a build went through three batches, the last one partial
C8_Witness ==
    /\ Len(tx_bundle) = 3
    /\ tx_bundle[3].batch_params.end - tx_bundle[3].batch_params.start < BATCH_SIZE

\* the signers array of a transaction's verify_signature instruction
Signers(tx) == tx.instructions[2].signers

\* C9 (as claimed): in every batch the signers array has as many entries other
\* than -1 as the batch has signatures, and these are pairwise distinct and
\* within 0..6.
C9_SignerSlotsMatchBatch ==
    \A k \in 1..Len(tx_bundle) :
        LET signers == Signers(tx_bundle[k])
            present == {g \in DOMAIN signers : signers[g] # -1}
        IN /\ Cardinality(present) = tx_bundle[k].batch_params.end - tx_bundle[k].batch_params.start
           /\ \A g \in present : signers[g] \in 0..(BATCH_SIZE - 1)
           /\ \A g, h \in present : g # h => signers[g] # signers[h]

\* some signature of the input names a guardian index of 19 or more
HasIndexOutOfRange ==
    \E k \in 1..Len(vaa.signatures) : vaa.signatures[k].guardian_set_index >= MAX_LEN_GUARDIAN_KEYS

\* C10: a build whose input has a guardian index >= 19 never returns a bundle;
\* once it has its guardian set it ends in the index-out-of-bounds panic, on
\* the signers array when the guardian set holds all 19 keys.
C10_IndexOutOfRangeFailsBuild ==
    HasIndexOutOfRange =>
        /\ build.result # "Ok"
        /\ returned = <<>>
        /\ (build.pc = "done" /\ guardian_set # <<>> =>
               /\ build.result = "Panic"
               /\ build.error \in {"index out of bounds: signature_status",
                                   "index out of bounds: guardian_set.keys"}
               /\ (Len(ledger_set.keys) = MAX_LEN_GUARDIAN_KEYS =>
                      build.error = "index out of bounds: signature_status"))

\* C10 witness: the out-of-range index sat in the third batch; two batches
\* were built before the build panicked on it
C10_Witness ==
    /\ HasIndexOutOfRange
    /\ build.pc = "done"
    /\ build.error = "index out of bounds: signature_status"
    /\ Len(tx_bundle) = 2

----------------------------------------------------------------------------
(* Reading secp256k1 instruction data the way the native verifier does: the
   count byte, then one 11-byte offsets record per entry, each pointing at
   the entry's fields by byte offset from the start of the data *)

\* the little-endian u16 at byte offset `at` (from 0)
ReadU16(data, at) == data[at + 1] + 256 * data[at + 2]

\* the `len` bytes at byte offset `at` (from 0)
Slice(data, at, len) == SubSeq(data, at + 1, at + len)

\* the k-th offsets record, k from 0
ReadOffsets(data, k) ==
    LET at == 1 + k * SIGNATURE_OFFSETS_SERIALIZED_SIZE
    IN [signature_offset |-> ReadU16(data, at),
        signature_instruction_index |-> data[at + 3],
        eth_address_offset |-> ReadU16(data, at + 3),
        eth_address_instruction_index |-> data[at + 6],
        message_data_offset |-> ReadU16(data, at + 6),
        message_data_size |-> ReadU16(data, at + 8),
        message_instruction_index |-> data[at + 11]]

\* the entry the k-th offsets record points at
ReadEntry(data, k) ==
    LET o == ReadOffsets(data, k)
    IN [signature |-> Slice(data, o.signature_offset, SIGNATURE_SERIALIZED_SIZE),
        recovery_id |-> data[o.signature_offset + SIGNATURE_SERIALIZED_SIZE + 1],
        eth_address |-> Slice(data, o.eth_address_offset, HASHED_PUBKEY_SERIALIZED_SIZE),
        message |-> Slice(data, o.message_data_offset, o.message_data_size)]

\* the packed signature data of a transaction of the bundle
SecpData(tx) == tx.instructions[1].data

----------------------------------------------------------------------------
(* Properties of the bundle as a whole *)

BuildErrors ==
    {"deser_vaa", "failed to get account data", "failed to parse account data",
     "TryFromIntError", "failed to create verify_signature instruction"}

\* C12: the build hands the caller either nothing or the whole bundle: a build
\* that did not end Ok returned no transaction, whatever it had built; what is
\* returned is the full list of planned batches; a failed guardian-set fetch
\* or decode ends the build with an error value before any batch is built.
C12_AllOrNothing ==
    /\ (build.result # "Ok" => returned = <<>>)
    /\ (returned # <<>> =>
           /\ build.result = "Ok"
           /\ returned = tx_bundle
           /\ Len(returned) = build.batches)
    /\ (build.pc = "done" /\ build.error \in BuildErrors =>
           /\ build.result = "Err"
           /\ returned = <<>>)
    /\ (build.pc = "done" /\ vaa.well_formed /\ ledger_set.status # "ok" =>
           /\ build.result = "Err"
           /\ build.error \in BuildErrors
           /\ tx_bundle = <<>>)

\* C12 witness: a build failed in its third batch, after two transactions
\* were built, and returned none of them
C12_Witness ==
    /\ build.pc = "done"
    /\ build.result # "Ok"
    /\ Len(tx_bundle) = 2
    /\ returned = <<>>

\* the input signature packed as entry j (from 0) of the k-th transaction (from 1)
InputOf(k, j) == vaa.signatures[(k - 1) * BATCH_SIZE + j + 1]

\* C13 (as claimed): in every transaction built, the address packed with a
\* signature is the entry of the loaded guardian set at the signature's
\* guardian index.
C13_AttesterIsGuardianSetEntry ==
    \A k \in 1..Len(tx_bundle) :
        \A j \in 0..(SecpData(tx_bundle[k])[1] - 1) :
            ReadEntry(SecpData(tx_bundle[k]), j).eth_address
                = ledger_set.keys[InputOf(k, j).guardian_set_index + 1]

\* the entries packed so far: <<k, j>> is entry j (from 0) of transaction k
PackedEntries ==
    UNION {{<<k, j>> : j \in 0..(SecpData(tx_bundle[k])[1] - 1)} : k \in 1..Len(tx_bundle)}

\* the address packed in entry e
PackedAddress(e) == ReadEntry(SecpData(tx_bundle[e[1]]), e[2]).eth_address

\* C14: over all the transactions of a build, every entry of the loaded
\* guardian set is the packed address of at most one signature.
C14_KeyUsedAtMostOnce ==
    \A g \in 1..Len(ledger_set.keys) :
        Cardinality({e \in PackedEntries : PackedAddress(e) = ledger_set.keys[g]}) <= 1

\* C14 witness: a returned bundle packs two signatures that name the same
\* guardian; the guardian's address went to the first of them only
C14_Witness ==
    /\ build.result = "Ok"
    /\ \E e, f \in PackedEntries :
           /\ e # f
           /\ InputOf(e[1], e[2]).guardian_set_index = InputOf(f[1], f[2]).guardian_set_index
           /\ PackedAddress(e) = ledger_set.keys[InputOf(e[1], e[2]).guardian_set_index + 1]
           /\ PackedAddress(f) = TakenKey

----------------------------------------------------------------------------
(* Properties of the signature packer *)

\* C15: the packer returns Ok for every list of at most 255 signatures; for a
\* list of 256 it fails on the length (the assert! on signatures.len()) and
\* gives no data.
C15_PackerAcceptsUpTo255 ==
    packer.op = "packed" =>
        /\ (Len(packer.signatures) <= 255 => packer.result = "Ok" /\ packer.data # <<>>)
        /\ (Len(packer.signatures) >= 256 =>
               /\ packer.result = "Panic"
               /\ packer.error = "assertion failed"
               /\ packer.data = <<>>)

\* C15 witness: a list of 256 signatures was refused
C15_Witness ==
    /\ packer.op = "packed"
    /\ Len(packer.signatures) = 256
    /\ packer.result # "Ok"

\* C16: for every list the packer accepts, the first byte of the data is the
\* number of entries, and reading the data at the offsets of the k-th offsets
\* record gives back the signature, the recovery id (the byte after the
\* signature), the address and the message hash of the k-th entry.
C16_PackerRoundTrip ==
    packer.op = "packed" /\ packer.result = "Ok" =>
        /\ packer.data[1] = Len(packer.signatures)
        /\ \A k \in 1..Len(packer.signatures) :
               ReadEntry(packer.data, k - 1) = packer.signatures[k]

\* C16 witness: a list of 255 entries was packed; its offsets need both bytes
\* of the u16
C16_Witness ==
    /\ packer.op = "packed"
    /\ packer.result = "Ok"
    /\ Len(packer.signatures) = 255
    /\ ReadOffsets(packer.data, 254).signature_offset > 255

\* the signature blob of packed data: what follows the count byte and the
\* offsets records
Blob(data) == SubSeq(data, 2 + data[1] * SIGNATURE_OFFSETS_SERIALIZED_SIZE, Len(data))

\* C17 (amended): each packed signature adds 117 bytes to the signature blob:
\* the 64-byte signature, the recovery id, the 20-byte address and the 32-byte
\* message hash, in that order; the blob of a count-entry list is count*117
\* bytes long.
C17_EntryIs117Bytes ==
    packer.op = "packed" /\ packer.result = "Ok" =>
        /\ Len(Blob(packer.data)) = Len(packer.signatures) * 117
        /\ \A k \in 1..Len(packer.signatures) :
               /\ Slice(Blob(packer.data), (k - 1) * 117, 64) = packer.signatures[k].signature
               /\ Blob(packer.data)[(k - 1) * 117 + 65] = packer.signatures[k].recovery_id
               /\ Slice(Blob(packer.data), (k - 1) * 117 + 65, 20) = packer.signatures[k].eth_address
               /\ Slice(Blob(packer.data), (k - 1) * 117 + 85, 32) = packer.signatures[k].message

\* C17 witness: the blob of a packed list of 255 entries
C17_Witness ==
    /\ packer.op = "packed"
    /\ packer.result = "Ok"
    /\ Len(packer.signatures) = 255
    /\ Len(packer.data) = 1 + 255 * 11 + 255 * 117

\* C17 (as claimed): the blob of a count-entry list is count*118 bytes long
C17_EntryIs118Bytes ==
    packer.op = "packed" /\ packer.result = "Ok" =>
        Len(Blob(packer.data)) = Len(packer.signatures) * 118

----------------------------------------------------------------------------
(* Properties of the Emitter record codec *)

\* byte i (from 0) of a u64 in little-endian order
U64Byte(v, i) == IF i % 2 = 0 THEN v[i \div 2 + 1] % 256 ELSE v[i \div 2 + 1] \div 256

\* C18: packing a record gives 73 bytes with the owner in bytes 0..31, the
\* derivation nonce in byte 32, the counter little-endian in bytes 33..40 and
\* the padding in bytes 41..72; decoding these bytes gives the record back
\* (through Pack::unpack too, when the owner is not the zero key).
C18_EmitterRoundTrip ==
    codec.op = "packed" =>
        /\ codec.packed.ok
        /\ Len(codec.packed.value) = 73
        /\ SubSeq(codec.packed.value, 1, 32) = codec.record.owner
        /\ codec.packed.value[33] = codec.record.nonce
        /\ \A i \in 0..7 : codec.packed.value[34 + i] = U64Byte(codec.record.next_publishable_nonce, i)
        /\ SubSeq(codec.packed.value, 42, 73) = codec.record.padding
        /\ codec.unchecked.ok
        /\ codec.unchecked.value = codec.record
        /\ (codec.record.owner # Zeros(32) => codec.checked.ok /\ codec.checked.value = codec.record)

\* C18 witness: the record of the crate's test (counter 69, padding all
\* ones) went through pack and unpack
C18_Witness ==
    /\ codec.op = "packed"
    /\ codec.record.owner = WORMHOLE_PROGRAM_ID
    /\ codec.record.next_publishable_nonce = U64(69)
    /\ codec.record.padding = [i \in 1..32 |-> 1]
    /\ codec.checked.ok
    /\ codec.checked.value = codec.record

\* C19: decoding a buffer that is not 73 bytes long, shorter or longer, fails
\* with InvalidAccountData and gives no record.
C19_WrongLengthRejected ==
    codec.op = "decoded" /\ Len(codec.buffer) # 73 =>
        /\ ~codec.unchecked.ok
        /\ codec.unchecked.err = "InvalidAccountData"
        /\ "value" \notin DOMAIN codec.unchecked
        /\ ~codec.checked.ok
        /\ codec.checked.err = "InvalidAccountData"
        /\ "value" \notin DOMAIN codec.checked

\* C19 witness: a buffer one byte too long, with a non-zero owner, was refused
C19_Witness ==
    /\ codec.op = "decoded"
    /\ Len(codec.buffer) = 74
    /\ codec.buffer[1] # 0
    /\ ~codec.checked.ok

----------------------------------------------------------------------------
(* Properties of the address derivations *)

----------------------------------------------------------------------------
(* C21 *)

\* the 16-bit number stored big-endian in the two bytes after the first off
ReadU16BE(b, off) == 256 * b[off + 1] + b[off + 2]

\* C21: the serialized VAA body is timestamp (4 bytes), nonce (4), emitter
\* chain (2), emitter address (32), sequence (8) and consistency level (1),
\* each big-endian, followed by the payload with no length prefix, 51 bytes
\* plus the payload in all; the hash is the Keccak-256 digest of exactly these
\* bytes and is the same under another version and guardian set index.
C21_VaaBodyLayoutAndHash ==
    pure.op = "hashed" =>
        LET v == pure.vaa
            b == pure.serialized
        IN /\ Len(b) = 51 + Len(v.payload)
           /\ ReadU16BE(b, 0) = v.timestamp[2] /\ ReadU16BE(b, 2) = v.timestamp[1]
           /\ ReadU16BE(b, 4) = v.nonce[2] /\ ReadU16BE(b, 6) = v.nonce[1]
           /\ ReadU16BE(b, 8) = v.emitter_chain
           /\ SubSeq(b, 11, 42) = v.emitter_address
           /\ \A k \in 1..4 : ReadU16BE(b, 42 + 2 * (4 - k)) = v.sequence[k]
           /\ b[51] = v.consistency_level
           /\ SubSeq(b, 52, Len(b)) = v.payload
           /\ pure.hash = keccak256(b)
           /\ pure.hash_other_header = pure.hash

\* a VAA whose fields have distinct bytes and whose payload is 11 bytes long
\* has been serialized and hashed
C21_Witness ==
    /\ pure.op = "hashed"
    /\ Len(pure.vaa.payload) = 11
    /\ pure.vaa.timestamp = <<772, 258>>
    /\ pure.vaa.sequence = <<2055, 1541, 1027, 513>>
    /\ Len(pure.serialized) = 62

----------------------------------------------------------------------------
(* C22 *)

\* every condition the validation of a publish is said to rest on
AllAccountsGood(a, executing_program_id) ==
    /\ a.clock_key = SysvarClockId
    /\ a.rent_key = SysvarRentId
    /\ a.system_program_key = SystemProgramId
    /\ a.core_bridge_program_key = WORMHOLE_PROGRAM_ID
    /\ a.emitter_key = ExpectedEmitter
    /\ a.core_message_account_key = ExpectedMessage
    /\ a.core_emitter_sequence_key = ExpectedSequence
    /\ a.emitter_owner = executing_program_id
    /\ a.core_bridge_config_owner = WORMHOLE_PROGRAM_ID
    /\ a.core_fee_collector_owner = WORMHOLE_PROGRAM_ID

\* C22: Accounts::validate returns true exactly when the clock, rent, system
\* program and core bridge program keys are the fixed ids, the emitter, message
\* and sequence keys are the derived addresses, the emitter account is owned by
\* the executing program and the bridge config and fee collector accounts are
\* owned by the core bridge program; when any one of these fails it returns
\* false.
C22_ValidExactlyWhenAllChecksHold ==
    pure.op = "validated" =>
        (pure.valid <=> AllAccountsGood(pure.accounts, pure.executing_program_id))

\* accounts that pass under the program owning the emitter were validated
\* under a different executing program id, and the answer was false
C22_Witness ==
    /\ pure.op = "validated"
    /\ AllAccountsGood(pure.accounts, ProgramId)
    /\ pure.executing_program_id = OtherProgramId
    /\ ~pure.valid

----------------------------------------------------------------------------
(* C23 *)

\* C23: for a payload whose data is shorter than 65536 bytes, deserializing
\* what serialize wrote gives back the same payload id and data, and what
\* serialize wrote is the id, the data length as two big-endian bytes, and the
\* data.
C23_PayloadRoundTrip ==
    (pure.op = "round_trip" /\ Len(pure.payload.data) < 65536) =>
        LET p == pure.payload
            n == Len(p.data)
        IN /\ pure.serialized = <<p.payload_id, n \div 256, n % 256>> \o p.data
           /\ pure.deserialized.result = "Ok"
           /\ pure.deserialized.value.payload_id = p.payload_id
           /\ pure.deserialized.value.data = p.data

\* the longest payload of the claim, and one whose length needs both bytes,
\* made the round trip
C23_Witness ==
    /\ pure.op = "round_trip"
    /\ Len(pure.payload.data) = 65535
    /\ pure.payload.payload_id = 255
    /\ Len(pure.serialized) = 65538
    /\ pure.deserialized.result = "Ok"

----------------------------------------------------------------------------
(* C24 *)

\* the input signatures of the k-th transaction (from 1) that name guardian g,
\* by their position in the batch
NamedBy(k, g) ==
    {j \in 0..(tx_bundle[k].batch_params.end - tx_bundle[k].batch_params.start - 1) :
        InputOf(k, j).guardian_set_index = g}

\* C24 (as claimed): in every batch the signers array holds j at g exactly when
\* the j-th signature of the batch names guardian g, and -1 at every g that no
\* signature of the batch names.
C24_SlotIsPositionOfSigner ==
    \A k \in 1..Len(tx_bundle) :
        \A g \in 0..(MAX_LEN_GUARDIAN_KEYS - 1) :
            /\ \A j \in 0..(BATCH_SIZE - 1) : Signers(tx_bundle[k])[g + 1] = j <=> j \in NamedBy(k, g)
            /\ (NamedBy(k, g) = {} => Signers(tx_bundle[k])[g + 1] = -1)

----------------------------------------------------------------------------
(* C25 *)

\* the bytes an entry adds to the signature blob
EntryBytes(e) == Len(e.signature) + 1 + Len(e.eth_address) + Len(e.message)

\* C25: the offsets the packer writes are running totals: the signature offset
\* of entry 0 is 1 + count * 11, the one of each next entry is the previous
\* plus the bytes of the previous entry; the address offset is the signature
\* offset plus the 64 signature bytes and the recovery id, the hash offset is
\* the address offset plus 20, the message length is 32; and for every list of
\* at most 255 entries each of them fits in 16 bits, so that the packer gives
\* data whose end is last hash offset + 32 <= 65536.
C25_OffsetsAreRunningTotals ==
    packer.op = "packed" =>
        /\ (Len(packer.signatures) <= 255 => packer.result = "Ok")
        /\ (packer.result = "Ok" =>
               LET n == Len(packer.signatures) IN
               /\ 1 + n * 11 + n * 117 <= U16Max + 1
               /\ Len(packer.data) = 1 + n * 11 + n * 117
               /\ \A k \in 0..(n - 1) :
                      LET o == ReadOffsets(packer.data, k) IN
                      /\ (k = 0 => o.signature_offset = 1 + n * 11)
                      /\ (k > 0 => o.signature_offset
                                      = ReadOffsets(packer.data, k - 1).signature_offset
                                          + EntryBytes(packer.signatures[k]))
                      /\ o.eth_address_offset = o.signature_offset + 64 + 1
                      /\ o.message_data_offset = o.eth_address_offset + 20
                      /\ o.message_data_size = 32
                      /\ o.message_data_offset + o.message_data_size <= Len(packer.data))

\* a list of 255 entries was packed: the last signature offset is 1 + 255 * 11
\* + 254 * 117 = 32524
C25_Witness ==
    /\ packer.op = "packed"
    /\ packer.result = "Ok"
    /\ Len(packer.signatures) = 255
    /\ ReadOffsets(packer.data, 254).signature_offset = 32524
    /\ ReadOffsets(packer.data, 254).message_data_offset = 32609

----------------------------------------------------------------------------
(* C26 *)

\* records a and b differ in next_publishable_nonce at most, and b's is a's
\* plus one
OnlyCounterStepped(a, b) ==
    /\ b.owner = a.owner
    /\ b.nonce = a.nonce
    /\ b.padding = a.padding
    /\ IsSucc(a.next_publishable_nonce, b.next_publishable_nonce)

\* C26: a successful increment of the counter, by the method or by a publish,
\* changes next_publishable_nonce only: owner, derivation nonce and padding of
\* the record are the same before and after, and so is every byte of the
\* account outside the counter's bytes 33..40.
C26_IncrementChangesCounterOnly ==
    codec.op = "incremented" =>
        /\ (~codec.method.panicked => OnlyCounterStepped(codec.record, codec.method.value))
        /\ (codec.publish.result = "Ok" =>
               /\ Len(codec.publish.data) = 73
               /\ OnlyCounterStepped(codec.record, unpack_from_slice(codec.publish.data))
               /\ \A i \in (1..73) \ (34..41) : codec.publish.data[i] = codec.before[i])

\* the record of the unit test (counter 69, padding of ones) went to 70 both
\* ways
C26_Witness ==
    /\ codec.op = "incremented"
    /\ codec.record.next_publishable_nonce = U64(69)
    /\ codec.record.padding = [i \in 1..32 |-> 1]
    /\ codec.record.nonce = 254
    /\ ~codec.method.panicked
    /\ codec.method.value.next_publishable_nonce = U64(70)
    /\ codec.publish.result = "Ok"
    /\ slice_next_publishable_nonce(codec.publish.data) = U64(70)

----------------------------------------------------------------------------
(* C27 *)

----------------------------------------------------------------------------
(* C28 *)

\* C28: a successful initialize_emitter starts from an address that holds no
\* record (the call creates the zeroed, Uninitialized record itself) and
\* leaves it Active, with the owner the calling program id, the derivation
\* nonce the bump of the emitter address derived for that program, and
\* next_publishable_nonce 0; the first successful publish on an emitter whose
\* counter started at 0 uses nonce 0.
C28_InitializedRecord ==
    [][/\ (last'.op = "initialize_emitter" /\ last'.result = "Ok" =>
              /\ ~HasRecord
              /\ Active'
              /\ Counter' = U64(0)
              /\ last'.buf = emitter'.data
              /\ \A p \in Publishers, pid \in Programs, f \in InitFaults :
                     InitializeEmitter(p, pid, f) =>
                         /\ unpack_from_slice(emitter'.data).owner = pid
                         /\ unpack_from_slice(emitter'.data).nonce = derive_emitter(pid).bump
                         /\ emitter'.owner = pid)
       /\ (last.op = "initialize_emitter" /\ last.result = "Ok"
              /\ last'.op = "send_message" /\ last'.result = "Ok" =>
              last'.nonce = U64(0))
       /\ (published' # <<>> /\ counter0 = U64(0) =>
              /\ published'[1].nonce = U64(0)
              /\ published'[1].message = derive_message_pda(ProgramId, U64(0)).address)]_vars

\* the emitter was initialized in this behaviour and the publish right after
\* it succeeded
C28_Witness ==
    /\ Len(published) = 1
    /\ published[1].nonce = U64(0)
    /\ Counter = U64(1)
    /\ \E p \in Publishers : lamports[p] \in {2000000 - RentMinimumBalance - FeeLamports,
                                              2000000 - RentMinimumBalance}

----------------------------------------------------------------------------
(* C29 *)

\* s is the beginning of t
IsPrefix(s, t) == Len(s) <= Len(t) /\ SubSeq(t, 1, Len(s)) = s

\* C29: the statements a publish runs are a beginning of: decode the record
\* and read the nonce, validate the accounts, transfer the fee, post the
\* message, increment and write back the counter, and a publish that returns
\* Ok ran them all; a publish whose validation fails stops there: the payer
\* keeps its lamports, no message is posted, and the record, in the account
\* and in the buffer the program leaves, is as before.
C29_PublishStepOrder ==
    [][last'.op = "send_message" =>
          /\ IsPrefix(last'.steps, <<"decode", "validate", "fee", "post", "increment">>)
          /\ last'.steps # <<>>
          /\ (last'.result = "Ok" => Len(last'.steps) = 5)
          /\ (Len(last'.steps) >= 3 /\ last'.error # "InsufficientFunds" =>
                 lamports[last'.payer] >= FeeLamports)
          /\ (last'.error = "invalid accounts" =>
                 /\ last'.result = "Panic"
                 /\ last'.steps = <<"decode", "validate">>
                 /\ lamports' = lamports
                 /\ messages' = messages
                 /\ published' = published
                 /\ emitter' = emitter
                 /\ (Len(last'.buf) = EmitterLEN =>
                        /\ is_initialized(unpack_from_slice(last'.buf))
                        /\ slice_next_publishable_nonce(last'.buf) = last'.nonce))
          /\ (lamports'[last'.payer] # lamports[last'.payer] \/ messages' # messages =>
                 /\ last'.result = "Ok"
                 /\ lamports'[last'.payer] = lamports[last'.payer] - FeeLamports)]_vars

\* a publish with a wrong account stopped at the validation, on an emitter
\* that has published before, with a payer that could have paid the fee
C29_Witness ==
    /\ last.op = "send_message"
    /\ last.error = "invalid accounts"
    /\ last.steps = <<"decode", "validate">>
    /\ Len(published) >= 1
    /\ lamports[last.payer] >= FeeLamports

----------------------------------------------------------------------------
(* C30 *)

\* C30: a publish on a record whose owner is the zero key fails with
\* UninitializedAccount at the decode, its first statement: the fee transfer
\* and the post-message call are not reached, the payer keeps its lamports,
\* and the buffer is left byte for byte as it was, so the record is still
\* Uninitialized and its counter is the same.
C30_PublishOnUninitializedFails ==
    (codec.op = "incremented" /\ codec.record.owner = PubkeyDefault) =>
        /\ codec.publish.result = "Err"
        /\ codec.publish.error = "UninitializedAccount"
        /\ codec.publish.steps = <<"decode">>
        /\ codec.publish.payer_lamports = FeeLamports
        /\ ~codec.publish.posted
        /\ codec.publish.data = codec.before
        /\ ~is_initialized(unpack_from_slice(codec.publish.data))
        /\ slice_next_publishable_nonce(codec.publish.data) = codec.record.next_publishable_nonce

\* a publish was tried on a record with the zero owner and a counter that is
\* not zero
C30_Witness ==
    /\ codec.op = "incremented"
    /\ codec.record.owner = PubkeyDefault
    /\ codec.record.next_publishable_nonce = U64(69)
    /\ codec.record.padding # Zeros(32)
    /\ codec.publish.result = "Err"

====
